---------------------------- MODULE Spec2Model ----------------------------
(***************************************************************************)
(* Form handler worker (Cloudflare Workers): the request-admission         *)
(* pipeline of the revision with CSRF and Turnstile (src/unnamed/part_002),*)
(* the KV-backed rate limiter, the anti-forgery check and the spam         *)
(* verifier of src/src/utils/security.js.                                  *)
(*                                                                         *)
(* Strings whose characters the code inspects are sequences of             *)
(* one-character strings; Null stands for JavaScript's null / undefined.   *)
(***************************************************************************)
EXTENDS Integers, Sequences, FiniteSets, TLC

VARIABLES
  env,          \* the worker's environment bindings (fixed per deployment)
  kv,           \* RATE_LIMITER namespace: the keys present -> timestamp list
  kvExpiry,     \* RATE_LIMITER namespace: key -> time the key expires at
  now,          \* the clock read by Date.now()
  pc,           \* per handler invocation: the await point it is suspended at
  req,          \* per handler invocation: the request it serves
  loc,          \* per handler invocation: locals of checkRateLimit / fetch
  resp,         \* per handler invocation: the Response returned
  hist,         \* per handler invocation: guards evaluated and outbound calls
  log,          \* results of the sequential checkRateLimit calls
  csrfReq,      \* headers of the request given to validateCsrfToken
  csrfResult,   \* what validateCsrfToken returned for csrfReq
  callArgs,     \* arguments of a function that is called on its own
  callResult    \* what that function came to

vars == <<env, kv, kvExpiry, now, pc, req, loc, resp, hist, log,
          csrfReq, csrfResult, callArgs, callResult>>

pipelineVars == <<pc, req, loc, resp, hist>>
storeVars == <<kv, kvExpiry>>
csrfVars == <<csrfReq, csrfResult>>
callVars == <<callArgs, callResult>>

\* JavaScript null / undefined (an absent header, cookie, field or KV key).
Null == <<"<null>">>

\* JavaScript truthiness of a string-or-null value: !x holds for null and "".
\* A JSON number and a JSON boolean, kept apart from strings (whose elements
\* are single characters) by their first element.
NumberValue(digits) == <<"<number>">> \o digits
BooleanValue(word) == <<"<boolean>">> \o word
NumberZero == NumberValue(<<"0">>)
BooleanFalse == BooleanValue(<<"f", "a", "l", "s", "e">>)

Falsy(x) == x = Null \/ x = <<>> \/ x = NumberZero \/ x = BooleanFalse

\* String(value) and value.toString() of a string, a number or a boolean.
StringOf(value) ==
  IF value # <<>> /\ value[1] \in {"<number>", "<boolean>"} THEN Tail(value)
  ELSE value

-----------------------------------------------------------------------------
(* String helpers: String.prototype.split / trim / startsWith.             *)

IsSpace(c) == c \in {" ", "\t", "\n", "\r"}

RECURSIVE TrimStart(_)
TrimStart(s) ==
  IF s # <<>> /\ IsSpace(Head(s)) THEN TrimStart(Tail(s)) ELSE s

RECURSIVE TrimEnd(_)
TrimEnd(s) ==
  IF s # <<>> /\ IsSpace(s[Len(s)]) THEN TrimEnd(SubSeq(s, 1, Len(s) - 1)) ELSE s

Trim(s) == TrimEnd(TrimStart(s))

StartsWith(s, prefix) ==
  Len(s) >= Len(prefix) /\ SubSeq(s, 1, Len(prefix)) = prefix

\* s.split(sep) for a one-character separator: the pieces between separators.
RECURSIVE Split(_, _)
Split(s, sep) ==
  IF \E i \in 1..Len(s) : s[i] = sep
  THEN LET i == CHOOSE j \in 1..Len(s) :
                  s[j] = sep /\ \A k \in 1..(j - 1) : s[k] # sep
       IN  <<SubSeq(s, 1, i - 1)>> \o Split(SubSeq(s, i + 1, Len(s)), sep)
  ELSE <<s>>

\* Array.prototype.find: the first element satisfying the test, else undefined.
FindStartingWith(list, prefix) ==
  IF \E i \in 1..Len(list) : StartsWith(list[i], prefix)
  THEN list[CHOOSE i \in 1..Len(list) :
              StartsWith(list[i], prefix)
              /\ \A k \in 1..(i - 1) : ~StartsWith(list[k], prefix)]
  ELSE Null

RECURSIVE Join(_, _)
Join(list, sep) ==
  IF list = <<>> THEN <<>>
  ELSE IF Len(list) = 1 THEN list[1]
  ELSE list[1] \o sep \o Join(Tail(list), sep)

-----------------------------------------------------------------------------
(* Anti-forgery guard: SecurityHelper.validateCsrfToken.                   *)

CsrfCookieName == <<"_","_","H","o","s","t","-","c","s","r","f","-","t","o","k","e","n">>

\* The prefix the code searches the cookies for: '__Host-csrf-token='.
CsrfCookiePrefix == CsrfCookieName \o <<"=">>

\* request.headers.get(name): the header's value, or null when it is absent.
HeaderGet(headers, name) ==
  IF name \in DOMAIN headers THEN headers[name] ELSE Null

\* The token the code extracts from the matched cookie: csrfCookie.split('=')[1].
CookieTokenOf(csrfCookie) == Split(csrfCookie, "=")[2]

validateCsrfToken(headers) ==
  LET headerToken == HeaderGet(headers, "X-CSRF-Token")
      cookieHeader == HeaderGet(headers, "Cookie")
  IN  IF Falsy(headerToken) \/ Falsy(cookieHeader) THEN FALSE
      ELSE LET cookies == [i \in 1..Len(Split(cookieHeader, ";")) |->
                             Trim(Split(cookieHeader, ";")[i])]
               csrfCookie == FindStartingWith(cookies, CsrfCookiePrefix)
           IN  IF Falsy(csrfCookie) THEN FALSE
               ELSE headerToken = CookieTokenOf(csrfCookie)

-----------------------------------------------------------------------------
(* Bounds of the model.                                                    *)

\* Time passes in steps of TickMs milliseconds, at most MaxTicks times.
TickMs == 30000
MaxTicks == 2
\* Largest configured RATE_LIMIT_REQUESTS_PER_MINUTE.
MaxLimit == 2
\* Number of sequential checkRateLimit calls.
MaxCalls == 4

\* Values of the CF-Connecting-IP header: two addresses, or no header at all.
IpHeaders == {<<"A">>, <<"B">>, Null}

-----------------------------------------------------------------------------
(* Distributed rate limiter: SecurityHelper.checkRateLimit.                *)

\* const windowMs = 60 * 1000
WindowMs == 60 * 1000

\* The default of parseInt(env.RATE_LIMIT_REQUESTS_PER_MINUTE) || 60.
DefaultRateLimit == 60

RateLimiterAssumedBoundMutant(e) == TRUE

\* if (!env.RATE_LIMITER): is the KV namespace bound?
RateLimiterConfigured(e) == e.RATE_LIMITER

\* Every client is counted under the one key 'unknown'.
ClientKeySharedMutant(ipHeader) == <<"u","n","k","n","o","w","n">>

\* request.headers.get('CF-Connecting-IP') || 'unknown'
ClientKey(ipHeader) ==
  IF Falsy(ipHeader) THEN <<"u","n","k","n","o","w","n">> ELSE ipHeader

Keys == {ClientKey(h) : h \in IpHeaders}

\* parseInt(env.RATE_LIMIT_REQUESTS_PER_MINUTE) || 60. The variable is modelled
\* by the integer parseInt gives, 0 standing for unset, non-numeric and "0"
\* (NaN and 0 are both falsy).
rateLimitPerMinute(e) ==
  IF e.RATE_LIMIT_REQUESTS_PER_MINUTE = 0 THEN DefaultRateLimit
  ELSE e.RATE_LIMIT_REQUESTS_PER_MINUTE

\* KV get(key, {type:'json'}) gives null for a key never written or expired.
KvHas(key) == key \in DOMAIN kv /\ now < kvExpiry[key]

\* const kvData = await env.RATE_LIMITER.get(ip, ...); timestamps = kvData || []
StoredTimestamps(key) == IF KvHas(key) THEN kv[key] ELSE <<>>

\* A timestamp exactly one window old still counts.
RecentTimestampsInclusiveMutant(timestamps, t) ==
  LET InWindow(ts) == t - ts <= WindowMs IN SelectSeq(timestamps, InWindow)

\* The timestamps read are counted without the filter on the window.
RecentTimestampsUnfilteredMutant(timestamps, t) == timestamps

\* timestamps.filter(timestamp => now - timestamp < windowMs)
RecentTimestamps(timestamps, t) ==
  LET InWindow(ts) == t - ts < WindowMs IN SelectSeq(timestamps, InWindow)

\* The check is rejected only when the list is longer than the limit.
RateLimitExceededOffByOneMutant(recent, limit) == Len(recent) > limit

\* if (recentTimestamps.length >= rateLimitPerMinute)
RateLimitExceeded(recent, limit) == Len(recent) >= limit

ResetTimeNowMutant(recent, t) == t + WindowMs

\* recentTimestamps[0] ? recentTimestamps[0] + windowMs : now + windowMs
ResetTime(recent, t) ==
  IF recent # <<>> /\ recent[1] # 0 THEN recent[1] + WindowMs ELSE t + WindowMs

\* const newTimestamps = [...recentTimestamps, now]
\* The list put lacks the timestamps read.
NewTimestampsOnlyNowMutant(recent, t) == <<t>>

\* The list put lacks the time of the current request.
NewTimestampsWithoutNowMutant(recent, t) == recent

NewTimestamps(recent, t) == Append(recent, t)

\* The result returned when the namespace is not bound.
RateLimitSkipped == [allowed |-> TRUE, remaining |-> -1, resetTime |-> -1]

\* The decision taken from the list read from KV; write is the list that an
\* allowed check puts (a rejected check puts nothing).
RateLimitDecision(timestamps, limit, t) ==
  LET recent == RecentTimestamps(timestamps, t)
      new == NewTimestamps(recent, t)
  IN  IF RateLimitExceeded(recent, limit)
      THEN [result |-> [allowed |-> FALSE, remaining |-> 0,
                        resetTime |-> ResetTime(recent, t)],
            write |-> <<>>]
      ELSE [result |-> [allowed |-> TRUE, remaining |-> limit - Len(new),
                        resetTime |-> t + WindowMs],
            write |-> new]

\* A rejected check goes on to the put like an allowed one.
ReturnsBeforePutNeverMutant(result) == FALSE

\* The return inside if (recentTimestamps.length >= rateLimitPerMinute),
\* which ends a rejected check before the put.
ReturnsBeforePut(result) == ~result.allowed

\* The key lives half a window.
ExpirationTtlHalfWindowMutant == WindowMs \div 2000

\* expirationTtl: windowMs / 1000, in seconds.
ExpirationTtl == WindowMs \div 1000

\* put(key, JSON.stringify(list), {expirationTtl: windowMs / 1000}): the JSON
\* round trip of a list of integers is exact, so the list itself is stored.
KvPutValue(key, list) ==
  /\ kv' = (key :> list) @@ kv
  /\ kvExpiry' = [kvExpiry EXCEPT ![key] = now + ExpirationTtl * 1000]

\* The clock advances; Date.now() never goes back.
Tick ==
  /\ now < TickMs * (MaxTicks + 1)
  /\ now' = now + TickMs

-----------------------------------------------------------------------------
(* Sequential executions of checkRateLimit, with their results logged.     *)

RateLimitEnvs ==
  [RATE_LIMITER : BOOLEAN, RATE_LIMIT_REQUESTS_PER_MINUTE : 0..MaxLimit,
   TURNSTILE_SECRET_KEY : {FALSE}, AIRTABLE : {FALSE}, RESEND : {"none"}]

InitRateLimit ==
  /\ env \in RateLimitEnvs
  /\ kv = <<>>
  /\ kvExpiry = [k \in Keys |-> 0]
  /\ now = TickMs
  /\ log = <<>>
  /\ pc = <<>> /\ req = <<>> /\ loc = <<>> /\ resp = <<>> /\ hist = <<>>
  /\ csrfReq = <<>> /\ csrfResult = Null
  /\ callArgs = <<>> /\ callResult = <<>>

\* One whole call of checkRateLimit(request, env), nothing interleaved.
CheckRateLimitSeq(ipHeader) ==
  /\ Len(log) < MaxCalls
  /\ IF ~RateLimiterConfigured(env)
     THEN /\ log' = Append(log, [ip |-> ipHeader, t |-> now, kvGets |-> 0,
                                 kvPuts |-> 0, stored |-> <<>>,
                                 result |-> RateLimitSkipped])
          /\ UNCHANGED storeVars
     ELSE LET key == ClientKey(ipHeader)
              d == RateLimitDecision(StoredTimestamps(key), rateLimitPerMinute(env), now)
          IN  /\ IF ReturnsBeforePut(d.result) THEN UNCHANGED storeVars
                 ELSE KvPutValue(key, d.write)
              /\ log' = Append(log, [ip |-> ipHeader, t |-> now, kvGets |-> 1,
                                     kvPuts |-> IF ReturnsBeforePut(d.result) THEN 0 ELSE 1,
                                     stored |-> StoredTimestamps(key),
                                     result |-> d.result])
  /\ UNCHANGED <<env, now, pipelineVars, csrfVars, callVars>>

TickRateLimit ==
  /\ Tick
  /\ UNCHANGED <<env, storeVars, log, pipelineVars, csrfVars, callVars>>

NextRateLimit ==
  \/ \E ipHeader \in IpHeaders : CheckRateLimitSeq(ipHeader)
  \/ TickRateLimit

SpecRateLimit == InitRateLimit /\ [][NextRateLimit]_vars

-----------------------------------------------------------------------------
(* Claims about the sequential rate limiter.                               *)

\* The logged checks of one client, in the order they were made.
ClientLog(ipHeader) ==
  LET OfClient(e) == e.ip = ipHeader IN SelectSeq(log, OfClient)

\* C3: in a sequential execution for one client with limit L and a 60 s
\* window, the first L checks within the window (counted from the first
\* check) are allowed, the (L+1)-th check within the window is rejected with
\* resetTime = the first check's timestamp + 60 s, and a check made when the
\* window has elapsed since every earlier allowed check is allowed again.
C3_WindowLimit ==
  env.RATE_LIMITER =>
    \A c \in IpHeaders :
      LET cl == ClientLog(c)
          L == rateLimitPerMinute(env)
      IN  /\ \A i \in 1..Len(cl) :
               (i <= L /\ cl[i].t - cl[1].t < WindowMs) => cl[i].result.allowed
          /\ (Len(cl) >= L + 1 /\ cl[L + 1].t - cl[1].t < WindowMs) =>
               /\ ~cl[L + 1].result.allowed
               /\ cl[L + 1].result.resetTime = cl[1].t + WindowMs
          /\ \A k \in 1..Len(cl) :
               (\A j \in 1..(k - 1) :
                    cl[j].result.allowed => cl[k].t - cl[j].t >= WindowMs) =>
                 cl[k].result.allowed

\* A client made L checks, then a later one in the window that was rejected,
\* then one after the window that was allowed.
C3_Witness ==
  /\ env.RATE_LIMITER
  /\ \E c \in IpHeaders :
       LET cl == ClientLog(c)
           L == rateLimitPerMinute(env)
       IN  /\ L >= 2
           /\ Len(cl) >= L + 2
           /\ cl[L + 1].t > cl[1].t
           /\ cl[L + 1].t - cl[1].t < WindowMs
           /\ ~cl[L + 1].result.allowed
           /\ \E k \in (L + 2)..Len(cl) :
                /\ \A j \in 1..(k - 1) :
                      cl[j].result.allowed => cl[k].t - cl[j].t >= WindowMs
                /\ cl[k].result.allowed

\* C5: with no RATE_LIMITER namespace bound, every check of every client is
\* allowed, whatever their number, and nothing is read from or written to a
\* store.
C5_UnconfiguredAllowsAll ==
  ~env.RATE_LIMITER =>
    /\ kv = <<>>
    /\ \A i \in 1..Len(log) :
         /\ log[i].result.allowed
         /\ log[i].kvGets = 0
         /\ log[i].kvPuts = 0

\* No namespace, a limit of 1, and MaxCalls checks made, several by one client.
C5_Witness ==
  /\ ~env.RATE_LIMITER
  /\ env.RATE_LIMIT_REQUESTS_PER_MINUTE = 1
  /\ Len(log) = MaxCalls
  /\ \E c \in IpHeaders : Len(ClientLog(c)) > 1
  /\ \A c \in IpHeaders : Len(ClientLog(c)) > 0

-----------------------------------------------------------------------------
(* Validator: FormValidator.validateFormData / validateField.              *)
(* Form data is the parsed JSON object: a sequence of <<key, value>>       *)
(* entries in the object's order, with string values.                      *)

LowerCase == {"a", "b", "c", "d", "e", "f", "g", "h", "i", "j", "k", "l", "m", "n", "o", "p", "q", "r", "s", "t", "u", "v", "w", "x", "y", "z"}
UpperCase == {"A", "B", "C", "D", "E", "F", "G", "H", "I", "J", "K", "L", "M", "N", "O", "P", "Q", "R", "S", "T", "U", "V", "W", "X", "Y", "Z"}
Digits == {"0", "1", "2", "3", "4", "5", "6", "7", "8", "9"}

\* formData[field]: the value of the entry with that key, or undefined.
FieldGet(formData, field) ==
  IF \E i \in 1..Len(formData) : formData[i][1] = field
  THEN formData[CHOOSE i \in 1..Len(formData) : formData[i][1] = field][2]
  ELSE Null

AllChars(s, set) == \A i \in 1..Len(s) : s[i] \in set

\* this.patterns.email = /^[^\s@]+@[^\s@]+\.[^\s@]+$/
MatchesEmail(s) ==
  \E i \in 1..Len(s) : \E j \in 1..Len(s) :
    /\ 1 < i /\ i + 1 < j /\ j < Len(s)
    /\ s[i] = "@" /\ s[j] = "."
    /\ \A k \in 1..Len(s) : ~IsSpace(s[k]) /\ (k # i => s[k] # "@")

\* this.patterns.name = /^[a-zA-Z\s'-]+$/
MatchesName(s) ==
  /\ s # <<>>
  /\ \A i \in 1..Len(s) :
       s[i] \in LowerCase \cup UpperCase \cup {"'", "-"} \/ IsSpace(s[i])

\* this.patterns.alphanumeric = /^[a-zA-Z0-9\s]+$/
MatchesAlphanumeric(s) ==
  /\ s # <<>>
  /\ \A i \in 1..Len(s) :
       s[i] \in LowerCase \cup UpperCase \cup Digits \/ IsSpace(s[i])

\* this.patterns.url = /^https?:\/\/.+/ (the dot matches no line terminator)
MatchesUrl(s) ==
  \E pre \in {<<"h","t","t","p",":","/","/">>, <<"h","t","t","p","s",":","/","/">>} :
    /\ StartsWith(s, pre)
    /\ Len(s) > Len(pre)
    /\ s[Len(pre) + 1] \notin {"\n", "\r"}

\* this.patterns.phone = /^[\+]?[1-9][\d]{0,15}$/
MatchesPhone(s) ==
  LET d == IF s # <<>> /\ Head(s) = "+" THEN Tail(s) ELSE s
  IN  /\ Len(d) >= 1 /\ Len(d) <= 16
      /\ d[1] \in Digits \ {"0"}
      /\ AllChars(d, Digits)

\* stringValue.replace(/[\s\-\(\)]/g, '')
StripPhonePunctuation(s) ==
  LET Keep(c) == ~IsSpace(c) /\ c \notin {"-", "(", ")"} IN SelectSeq(s, Keep)

\* this.limits: the fields with length bounds, and their bounds.
LimitedFields == {"name", "email", "phone", "message", "subject", "company", "website"}

LimitMin(field) == IF field = "email" THEN 5 ELSE IF field = "phone" THEN 10 ELSE 1

LimitMax(field) ==
  CASE field = "name" -> 100
    [] field = "email" -> 254
    [] field = "phone" -> 20
    [] field = "message" -> 5000
    [] field = "subject" -> 200
    [] field = "company" -> 100
    [] field = "website" -> 200

\* validateField(field, value) for a string value: the errors of one field.
\* An error message built from a template is the sequence of its parts.
validateField(field, value) ==
  LET stringValue == Trim(StringOf(value))
      tooShort == IF field \in LimitedFields /\ Len(stringValue) < LimitMin(field)
                  THEN <<<<field, " must be at least ", "limit.min", " characters long">>>>
                  ELSE <<>>
      tooLong == IF field \in LimitedFields /\ Len(stringValue) > LimitMax(field)
                 THEN <<<<field, " must be no more than ", "limit.max", " characters long">>>>
                 ELSE <<>>
      format ==
        CASE field = "email" /\ ~MatchesEmail(stringValue) ->
               <<<<"Invalid email format">>>>
          [] field = "phone" /\ ~MatchesPhone(StripPhonePunctuation(stringValue)) ->
               <<<<"Invalid phone number format">>>>
          [] field = "website" /\ ~MatchesUrl(stringValue) ->
               <<<<"Invalid website URL format">>>>
          [] field = "name" /\ ~MatchesName(stringValue) ->
               <<<<"Name contains invalid characters">>>>
          [] field = "company" /\ ~MatchesAlphanumeric(stringValue) ->
               <<<<"Company name contains invalid characters">>>>
          [] OTHER -> <<>>
  IN  IF stringValue = <<>> THEN <<>> ELSE tooShort \o tooLong \o format

\* The first loop of validateFormData: one error per missing required field.
RECURSIVE RequiredErrors(_, _)
RequiredErrors(formData, requiredFieldsList) ==
  IF requiredFieldsList = <<>> THEN <<>>
  ELSE LET field == Head(requiredFieldsList)
           v == FieldGet(formData, field)
       IN  (IF Falsy(v) \/ Trim(StringOf(v)) = <<>> THEN <<<<field, " is required">>>> ELSE <<>>)
           \o RequiredErrors(formData, Tail(requiredFieldsList))

\* The second loop of validateFormData: the errors of every entry, in order.
RECURSIVE FieldErrors(_)
FieldErrors(entries) ==
  IF entries = <<>> THEN <<>>
  ELSE validateField(Head(entries)[1], Head(entries)[2]) \o FieldErrors(Tail(entries))

\* validateFormData(formData, requiredFields); requiredFieldsList is
\* requiredFields split at ',' and trimmed (empty when the variable is unset).
validateFormData(formData, requiredFieldsList) ==
  LET errors == RequiredErrors(formData, requiredFieldsList) \o FieldErrors(formData)
  IN  [isValid |-> Len(errors) = 0, errors |-> errors]

-----------------------------------------------------------------------------
(* Spam verifier: SecurityHelper.validateTurnstileToken.                   *)

\* What validateTurnstileToken does before any outbound call: "skip" returns
\* true (no secret), "reject" returns false (no token), "call" goes on to the
\* siteverify request.
\* The token is looked at before the secret.
TurnstilePrecheckTokenFirstMutant(e, token) ==
  IF Falsy(token) THEN "reject"
  ELSE IF ~e.TURNSTILE_SECRET_KEY THEN "skip"
  ELSE "call"

\* A missing token is sent to the verification service.
TurnstilePrecheckNoTokenCheckMutant(e, token) ==
  IF ~e.TURNSTILE_SECRET_KEY THEN "skip" ELSE "call"

TurnstilePrecheck(e, token) ==
  IF ~e.TURNSTILE_SECRET_KEY THEN "skip"
  ELSE IF Falsy(token) THEN "reject"
  ELSE "call"

\* What the siteverify request can come to: a JSON body whose success field is
\* true, false, a truthy value that is no boolean, or missing; or a network
\* error or unparsable body, which throws.
VerifyOutcomes == {"true", "false", "truthy", "missing", "throw"}

\* return data.success (false in the catch), as fetch tests it: !isTurnstileValid
TurnstileValid(outcome) == outcome \in {"true", "truthy"}

-----------------------------------------------------------------------------
(* Outbound adapters: retryRequest, saveSubmission, sendNotification.      *)

\* retryRequest(url, options, 3)
MaxRetries == 3

\* What one fetch attempt can come to: a 2xx, 4xx or 5xx response, or a throw.
FetchOutcomes == {"ok", "4xx", "5xx", "throw"}

\* The outcomes of the attempts that retryRequest will make, one per attempt.
AttemptOutcomes == UNION {[1..n -> FetchOutcomes] : n \in 1..MaxRetries}

\* The loop of retryRequest over the outcomes of its attempts, from attempt
\* number `attempt` on: how many attempts were made, the delays taken, and
\* the response returned or the error thrown.
RECURSIVE RetryLoop(_, _, _)
RetryLoop(outcomes, attempt, delays) ==
  LET o == outcomes[attempt]
  IN  IF o \in {"ok", "4xx"}
      THEN [attempts |-> attempt, delays |-> delays, thrown |-> FALSE, final |-> o]
      ELSE IF attempt = MaxRetries
      THEN [attempts |-> attempt, delays |-> delays, thrown |-> o = "throw", final |-> o]
      ELSE RetryLoop(outcomes, attempt + 1, Append(delays, (2 ^ attempt) * 1000))

\* A client error is retried like a server error.
retryRequestRetries4xxMutant(outcomes) ==
  LET stops == {i \in 1..Len(outcomes) : outcomes[i] = "ok"} \cup {Len(outcomes)}
      n == CHOOSE i \in stops : \A j \in stops : i <= j
  IN  [attempts |-> n, delays |-> [i \in 1..(n - 1) |-> (2 ^ i) * 1000],
       thrown |-> outcomes[n] = "throw", final |-> outcomes[n]]

\* After the last attempt the last error caught is thrown, if there is one.
retryRequestThrowsLastErrorMutant(outcomes) ==
  LET stops == {i \in 1..Len(outcomes) : outcomes[i] \in {"ok", "4xx"}}
                 \cup {Len(outcomes)}
      n == CHOOSE i \in stops : \A j \in stops : i <= j
      caught == \E i \in 1..n : outcomes[i] = "throw"
      exhausted == outcomes[n] \notin {"ok", "4xx"}
  IN  [attempts |-> n, delays |-> [i \in 1..(n - 1) |-> (2 ^ i) * 1000],
       thrown |-> exhausted /\ caught,
       final |-> IF exhausted /\ caught THEN "throw" ELSE outcomes[n]]

\* The delay is taken after the last attempt too, before the loop is left.
retryRequestDelaysAfterLastMutant(outcomes) ==
  LET r == RetryLoop(outcomes, 1, <<>>)
  IN  IF r.final \in {"ok", "4xx"} THEN r
      ELSE [r EXCEPT !.delays = Append(@, (2 ^ r.attempts) * 1000)]

retryRequest(outcomes) == RetryLoop(outcomes, 1, <<>>)

\* The outcome sequences retryRequest consumes completely: every attempt but
\* the last is retryable, and the last is a 2xx or 4xx or the MaxRetries-th.
CompleteOutcomes ==
  {o \in AttemptOutcomes :
     /\ \A i \in 1..(Len(o) - 1) : o[i] \in {"5xx", "throw"}
     /\ o[Len(o)] \in {"ok", "4xx"} \/ Len(o) = MaxRetries}

\* response.ok is not looked at: any response returned is a success.
saveSubmissionIgnoresStatusMutant(e, outcomes) ==
  IF ~e.AIRTABLE THEN [success |-> FALSE, error |-> "Airtable configuration missing"]
  ELSE IF RetryLoop(outcomes, 1, <<>>).thrown
  THEN [success |-> FALSE, error |-> "fetch failed"]
  ELSE [success |-> TRUE, error |-> ""]

\* AirtableService.saveSubmission(formData, env): never throws.
saveSubmission(e, outcomes) ==
  IF ~e.AIRTABLE THEN [success |-> FALSE, error |-> "Airtable configuration missing"]
  ELSE LET r == retryRequest(outcomes)
       IN  IF r.thrown THEN [success |-> FALSE, error |-> "fetch failed"]
           ELSE IF r.final = "ok" THEN [success |-> TRUE, error |-> ""]
           ELSE [success |-> FALSE, error |-> "Airtable API error"]

\* EmailService.sendNotification(formData, env): never throws.
sendNotification(e, outcomes) ==
  IF e.RESEND = "none" THEN [success |-> FALSE, error |-> "Resend API key not configured"]
  ELSE IF e.RESEND = "key" THEN [success |-> FALSE, error |-> "Email addresses not configured"]
  ELSE LET r == retryRequest(outcomes)
       IN  IF r.thrown THEN [success |-> FALSE, error |-> "fetch failed"]
           ELSE IF r.final = "ok" THEN [success |-> TRUE, error |-> ""]
           ELSE [success |-> FALSE, error |-> "Resend API error"]

\* env.RESEND_API_KEY
ResendConfigured(e) == e.RESEND # "none"

\* Both services have to succeed.
OverallSuccessBothMutant(airtable, email) == airtable.success /\ email.success

\* results.success = results.airtable.success || results.email.success
OverallSuccess(airtable, email) == airtable.success \/ email.success

\* The record-store adapter is invoked without its configuration.
AirtableAlwaysInvokedMutant(e) == TRUE

\* env.AIRTABLE_API_KEY && env.AIRTABLE_BASE_ID
AirtableConfigured(e) == e.AIRTABLE

\* The initial per-service entry of processFormSubmission's results.
NotAttempted == [success |-> FALSE, error |-> ""]

-----------------------------------------------------------------------------
(* Inputs of the pipeline.                                                 *)

\* Invocations of fetch in flight. The pipeline is followed one request at a
\* time: after checkRateLimit returns, an invocation touches no state shared
\* with another one. The limiter is followed with concurrent invocations.
PipelineHandlers == {1}
RaceHandlers == {1, 2}

Methods == {"OPTIONS", "GET", "POST", "PUT"}
Paths == {"/", "/csrf-token"}

\* The Cookie header a browser sends for a list of <<name, value>> cookies.
CookieHeaderOf(cookies) ==
  Join([i \in 1..Len(cookies) |-> cookies[i][1] \o <<"=">> \o cookies[i][2]],
       <<";", " ">>)

\* The headers validateCsrfToken reads, for a header token (Null: the header
\* is not sent) and a cookie list (empty: no Cookie header is sent).
CsrfHeaders(headerToken, cookies) ==
  LET h == IF headerToken = Null THEN <<>> ELSE "X-CSRF-Token" :> headerToken
      c == IF cookies = <<>> THEN <<>> ELSE "Cookie" :> CookieHeaderOf(cookies)
  IN  h @@ c

SessionCookie == <<<<"s","i","d">>, <<"a","b">>>>

\* The anti-forgery headers of the requests of the pipeline: a matching pair
\* (after another cookie), a mismatch, and a missing header or cookie.
PipelineCsrfHeaders ==
  { CsrfHeaders(<<"a","b">>, <<SessionCookie, <<CsrfCookieName, <<"a","b">>>>>>),
    CsrfHeaders(<<"a","b">>, <<<<CsrfCookieName, <<"b","a">>>>>>),
    CsrfHeaders(Null, <<<<CsrfCookieName, <<"a","b">>>>>>),
    CsrfHeaders(<<"a","b">>, <<SessionCookie>>) }

\* What validateCsrfToken returns for the requests of the pipeline.
PipelineCsrfResults == {validateCsrfToken(h) : h \in PipelineCsrfHeaders}

\* env.ALLOWED_ORIGINS: one origin listed as it is, and one domain suffix.
AllowedOrigins == <<"a", ",", " ", ".", "b">>

\* allowedOrigins.split(',').map(o => o.trim()), or the default when not set.
AllowedOriginsList(allowedOrigins, default) ==
  IF Falsy(allowedOrigins) THEN default
  ELSE [i \in 1..Len(Split(allowedOrigins, ",")) |->
          Trim(Split(allowedOrigins, ",")[i])]

EndsWith(s, suffix) ==
  Len(s) >= Len(suffix) /\ SubSeq(s, Len(s) - Len(suffix) + 1, Len(s)) = suffix

Includes(list, x) == \E i \in 1..Len(list) : list[i] = x

\* A suffix entry matches an origin that has it anywhere, not only at its end.
isSubdomainAllowedAnywhereMutant(origin, allowedOriginsList) ==
  IF Falsy(origin) THEN FALSE
  ELSE \E i \in 1..Len(allowedOriginsList) :
         LET allowed == allowedOriginsList[i]
         IN  \/ allowed = <<"*">>
             \/ origin = allowed
             \/ /\ StartsWith(allowed, <<".">>)
                /\ \E k \in 1..Len(origin) :
                     StartsWith(SubSeq(origin, k, Len(origin)), allowed)

\* SecurityHelper.isSubdomainAllowed
isSubdomainAllowed(origin, allowedOriginsList) ==
  IF Falsy(origin) THEN FALSE
  ELSE \E i \in 1..Len(allowedOriginsList) :
         LET allowed == allowedOriginsList[i]
         IN  \/ allowed = <<"*">>
             \/ origin = allowed
             \/ StartsWith(allowed, <<".">>) /\ EndsWith(origin, allowed)

\* SecurityHelper.validateOrigin, which no revision of fetch calls.
validateOrigin(origin, allowedOrigins) ==
  IF Falsy(origin) THEN FALSE
  ELSE LET list == AllowedOriginsList(allowedOrigins, <<>>)
       IN  \/ Includes(list, <<"*">>)
           \/ Includes(list, origin)
           \/ isSubdomainAllowed(origin, list)

\* The Access-Control-Allow-Origin header of getCorsHeaders, which is all
\* that fetch does with the Origin of a request.
AccessControlAllowOrigin(origin, allowedOrigins) ==
  LET list == AllowedOriginsList(allowedOrigins, <<<<"*">>>>)
      isAllowedOrigin == \/ Includes(list, <<"*">>)
                         \/ Includes(list, origin)
                         \/ isSubdomainAllowed(origin, list)
  IN  IF isAllowedOrigin THEN (IF Falsy(origin) THEN <<"*">> ELSE origin)
      ELSE <<"n", "u", "l", "l">>

\* The Origin headers of the requests: a listed origin and one that no entry
\* of the list permits.
\* The requests of the pipeline come from one client address.
PipelineIpHeaders == {<<"A">>}

ListedOrigin == <<"a">>
UnlistedOrigin == <<"e">>
PipelineOrigins == {ListedOrigin, UnlistedOrigin}

TurnstileField == "cf-turnstile-response"

ContactFields ==
  << <<"name", <<"J","o">>>>,
     <<"email", <<"j","o","@","x",".","c","o","m">>>>,
     <<"message", <<"h","i">>>> >>

\* Request bodies: the contact form with and without a challenge token, with
\* an empty token, with a bad email address, and with fields missing.
Bodies ==
  { ContactFields,
    ContactFields \o << <<TurnstileField, <<"t","o","k">>>> >>,
    ContactFields \o << <<TurnstileField, <<>>>> >>,
    << <<"name", <<"J","o">>>>, <<"email", <<"b","a","d">>>>,
       <<"message", <<"h","i">>>>, <<TurnstileField, <<"t","o","k">>>> >>,
    << <<"email", <<"j","o","@","x",".","c","o","m">>>>, <<"message", <<" ">>>> >> }

\* A body request.json() cannot parse.
Unparsable == <<<<"<not json>">>>>

\* The body null: request.json() gives null, and reading a field of it throws.
NullBody == <<<<"<null>">>>>

PipelineEnvs ==
  [RATE_LIMITER : BOOLEAN, RATE_LIMIT_REQUESTS_PER_MINUTE : {1},
   TURNSTILE_SECRET_KEY : BOOLEAN, AIRTABLE : BOOLEAN,
   RESEND : {"none", "key", "full"}]

\* env.REQUIRED_FIELDS = "name,email,message", split at ',' and trimmed.
RequiredFieldsList == <<"name", "email", "message">>

-----------------------------------------------------------------------------
(* The fetch handler of src/unnamed/part_002.                              *)

Guard(name, passed) == [guard |-> name, passed |-> passed]

\* `sub_${Date.now()}_${Math.random().toString(36).substr(2, 9)}`: the
\* prefix, and the clock and random parts as one character each.
generateSubmissionId == <<"s", "u", "b", "_", "<Date.now()>", "_", "<random>">>

NoResponse ==
  [status |-> 0, kind |-> "none", success |-> FALSE, details |-> <<>>,
   submissionId |-> <<>>, airtable |-> NotAttempted, email |-> NotAttempted]

\* new Response(JSON.stringify({success: false, error, details}), {status})
ErrorResponse(status, kind, details) ==
  [status |-> status, kind |-> kind, success |-> FALSE, details |-> details,
   submissionId |-> <<>>, airtable |-> NotAttempted, email |-> NotAttempted]

\* The catch block of fetch: the generic 500.
InternalError == ErrorResponse(500, "internalError", <<>>)

\* The message of the error caught is put into the response.
CatchResponseWithMessageMutant(message) ==
  ErrorResponse(500, "internalError", <<<<message>>>>)

\* catch (error) { logger.error(...); return the generic 500 }
CatchResponse(message) == InternalError

\* The messages of the errors that reach the catch block of fetch.
KvGetError == "KV GET failed"
KvPutError == "KV PUT failed"
JsonSyntaxError == "Unexpected token in JSON"
NullBodyError == "Cannot read properties of null"

\* The anti-forgery rejection does not return.
RouteRequestCsrfFallsThroughMutant(method, path, csrfValid) ==
  IF method = "OPTIONS" THEN [next |-> "preflight", trace |-> <<>>]
  ELSE IF method = "GET" /\ path = "/csrf-token"
  THEN [next |-> "csrfToken", trace |-> <<>>]
  ELSE IF method # "POST"
  THEN [next |-> "methodNotAllowed", trace |-> <<Guard("method", FALSE)>>]
  ELSE [next |-> "rateLimit",
        trace |-> <<Guard("method", TRUE), Guard("csrf", csrfValid)>>]

\* The method is not checked: whatever is neither a preflight nor the token
\* request is handled like a POST.
RouteRequestAnyMethodMutant(method, path, csrfValid) ==
  IF method = "OPTIONS" THEN [next |-> "preflight", trace |-> <<>>]
  ELSE IF method = "GET" /\ path = "/csrf-token"
  THEN [next |-> "csrfToken", trace |-> <<>>]
  ELSE IF ~csrfValid
  THEN [next |-> "csrfInvalid",
        trace |-> <<Guard("method", TRUE), Guard("csrf", FALSE)>>]
  ELSE [next |-> "rateLimit",
        trace |-> <<Guard("method", TRUE), Guard("csrf", TRUE)>>]

\* The synchronous head of fetch, up to the rate-limit check; csrfValid is
\* what security.validateCsrfToken(request) returns.
RouteRequest(method, path, csrfValid) ==
  IF method = "OPTIONS" THEN [next |-> "preflight", trace |-> <<>>]
  ELSE IF method = "GET" /\ path = "/csrf-token"
  THEN [next |-> "csrfToken", trace |-> <<>>]
  ELSE IF method # "POST"
  THEN [next |-> "methodNotAllowed", trace |-> <<Guard("method", FALSE)>>]
  ELSE IF ~csrfValid
  THEN [next |-> "csrfInvalid",
        trace |-> <<Guard("method", TRUE), Guard("csrf", FALSE)>>]
  ELSE [next |-> "rateLimit",
        trace |-> <<Guard("method", TRUE), Guard("csrf", TRUE)>>]

\* The rate-limit result is not looked at.
AfterRateLimitIgnoredMutant(allowed) == "continue"

\* if (!rateLimitResult.allowed) return 429
AfterRateLimit(allowed) == IF ~allowed THEN "reject" ELSE "continue"

\* Every request is taken for spam.
AfterTurnstileAlwaysRejectMutant(valid) == "reject"

\* if (!isTurnstileValid) return 403
AfterTurnstile(valid) == IF ~valid THEN "reject" ELSE "continue"

\* The validation result is not looked at.
AfterValidationIgnoredMutant(isValid) == "continue"

\* if (!validationResult.isValid) return 400
AfterValidation(isValid) == IF ~isValid THEN "reject" ELSE "continue"

\* The validation failure is answered without the list of errors.
ValidationStepNoDetailsMutant(formData) ==
  LET v == validateFormData(formData, RequiredFieldsList)
  IN  IF ~v.isValid
      THEN [pc |-> "done", resp |-> ErrorResponse(400, "validationFailed", <<>>),
            trace |-> <<Guard("validation", FALSE)>>]
      ELSE [pc |-> "airtable", resp |-> NoResponse,
            trace |-> <<Guard("validation", TRUE)>>]

\* Field validation and what follows it synchronously: where the handler goes
\* next, the response if it returns, and the guards evaluated.
ValidationStep(formData) ==
  LET v == validateFormData(formData, RequiredFieldsList)
  IN  IF AfterValidation(v.isValid) = "reject"
      THEN [pc |-> "done",
            resp |-> ErrorResponse(400, "validationFailed", v.errors),
            trace |-> <<Guard("validation", v.isValid)>>]
      ELSE [pc |-> "airtable", resp |-> NoResponse,
            trace |-> <<Guard("validation", v.isValid)>>]

\* The spam guard's verdict and what follows it synchronously.
SpamStep(formData, valid) ==
  IF AfterTurnstile(valid) = "reject"
  THEN [pc |-> "done", resp |-> ErrorResponse(403, "spamFailed", <<>>),
        trace |-> <<Guard("spam", valid)>>]
  ELSE LET v == ValidationStep(formData)
       IN  [v EXCEPT !.trace = <<Guard("spam", valid)>> \o v.trace]

InitLocals ==
  [now |-> 0, read |-> <<>>, write |-> <<>>, rlDone |-> FALSE,
   rl |-> RateLimitSkipped, formData |-> <<>>]

InitHistory ==
  [trace |-> <<>>, kvGets |-> 0, kvPuts |-> 0, kvError |-> FALSE,
   verifyCalls |-> 0, verifyOutcome |-> "", airtableCalls |-> 0,
   emailCalls |-> 0, thrown |-> ""]

NoRequest == [method |-> "", path |-> "", ip |-> Null, origin |-> Null]

Init ==
  /\ env \in PipelineEnvs
  /\ kv = <<>>
  /\ kvExpiry = [k \in Keys |-> 0]
  /\ now = TickMs
  /\ pc = [p \in PipelineHandlers |-> "idle"]
  /\ req = [p \in PipelineHandlers |-> NoRequest]
  /\ loc = [p \in PipelineHandlers |-> InitLocals]
  /\ resp = [p \in PipelineHandlers |-> NoResponse]
  /\ hist = [p \in PipelineHandlers |-> InitHistory]
  /\ log = <<>>
  /\ csrfReq = <<>> /\ csrfResult = Null
  /\ callArgs = <<>> /\ callResult = <<>>

\* A request arrives at an invocation that is free (it has none yet, or has
\* returned its response): fetch runs up to its first await, the KV get of
\* checkRateLimit (or the body read, when no namespace is bound).
ReceiveRequest(p, method, path, ipHeader, origin, csrfValid) ==
  /\ pc[p] \in {"idle", "done"}
  /\   LET r == RouteRequest(method, path, csrfValid)
           limited == r.next = "rateLimit" /\ RateLimiterConfigured(env)
           skipped == r.next = "rateLimit" /\ ~RateLimiterConfigured(env)
           go == AfterRateLimit(RateLimitSkipped.allowed)
       IN  /\ req' = [req EXCEPT ![p] = [method |-> method, path |-> path,
                                          ip |-> ipHeader, origin |-> origin]]
           /\ pc' = [pc EXCEPT ![p] =
                 IF limited THEN "kvGet"
                 ELSE IF skipped /\ go = "continue" THEN "parse"
                 ELSE "done"]
           /\ resp' = [resp EXCEPT ![p] =
                 CASE r.next = "preflight" -> ErrorResponse(200, "preflight", <<>>)
                   [] r.next = "csrfToken" ->
                        [ErrorResponse(200, "csrfToken", <<>>) EXCEPT !.success = TRUE]
                   [] r.next = "methodNotAllowed" ->
                        ErrorResponse(405, "methodNotAllowed", <<>>)
                   [] r.next = "csrfInvalid" -> ErrorResponse(403, "csrfInvalid", <<>>)
                   [] skipped /\ go = "reject" -> ErrorResponse(429, "rateLimited", <<>>)
                   [] OTHER -> NoResponse]
           /\ loc' = [loc EXCEPT ![p] =
                 IF limited THEN [InitLocals EXCEPT !.now = now]
                 ELSE IF skipped
                 THEN [InitLocals EXCEPT !.rlDone = TRUE, !.rl = RateLimitSkipped]
                 ELSE InitLocals]
           /\ hist' = [hist EXCEPT ![p] = [InitHistory EXCEPT !.trace =
                 IF skipped THEN r.trace \o <<Guard("rate", RateLimitSkipped.allowed)>>
                 ELSE r.trace]]
  /\ UNCHANGED <<env, storeVars, now, log, csrfVars, callVars>>

Receive(p) ==
  \E method \in Methods, path \in Paths, ipHeader \in PipelineIpHeaders,
     origin \in PipelineOrigins, csrfValid \in PipelineCsrfResults :
    ReceiveRequest(p, method, path, ipHeader, origin, csrfValid)

\* The KV get of checkRateLimit completes, or raises; the list read decides.
KvGet(p) ==
  /\ pc[p] = "kvGet"
  /\ \E reachable \in BOOLEAN :
       IF ~reachable
       THEN /\ pc' = [pc EXCEPT ![p] = "done"]
            /\ resp' = [resp EXCEPT ![p] = CatchResponse(KvGetError)]
            /\ hist' = [hist EXCEPT ![p].kvGets = @ + 1, ![p].kvError = TRUE,
                                    ![p].thrown = KvGetError]
            /\ UNCHANGED loc
       ELSE LET read == StoredTimestamps(ClientKey(req[p].ip))
                d == RateLimitDecision(read, rateLimitPerMinute(env), loc[p].now)
                go == AfterRateLimit(d.result.allowed)
            IN  /\ loc' = [loc EXCEPT ![p].read = read, ![p].write = d.write,
                                      ![p].rlDone = ~d.result.allowed,
                                      ![p].rl = d.result]
                /\ hist' = [hist EXCEPT ![p].kvGets = @ + 1,
                                        ![p].trace = IF d.result.allowed THEN @
                                                     ELSE @ \o <<Guard("rate", FALSE)>>]
                /\ pc' = [pc EXCEPT ![p] =
                      IF d.result.allowed THEN "kvPut"
                      ELSE IF go = "reject" THEN "done" ELSE "parse"]
                /\ resp' = [resp EXCEPT ![p] =
                      IF ~d.result.allowed /\ go = "reject"
                      THEN ErrorResponse(429, "rateLimited", <<>>) ELSE @]
  /\ UNCHANGED <<env, storeVars, now, req, log, csrfVars, callVars>>

\* The KV put of checkRateLimit completes, or raises; checkRateLimit returns.
KvPut(p) ==
  /\ pc[p] = "kvPut"
  /\ \E reachable \in BOOLEAN :
       IF ~reachable
       THEN /\ pc' = [pc EXCEPT ![p] = "done"]
            /\ resp' = [resp EXCEPT ![p] = CatchResponse(KvPutError)]
            /\ hist' = [hist EXCEPT ![p].kvPuts = @ + 1, ![p].kvError = TRUE,
                                    ![p].thrown = KvPutError]
            /\ UNCHANGED <<loc, storeVars>>
       ELSE LET go == AfterRateLimit(loc[p].rl.allowed)
            IN  /\ KvPutValue(ClientKey(req[p].ip), loc[p].write)
                /\ loc' = [loc EXCEPT ![p].rlDone = TRUE]
                /\ hist' = [hist EXCEPT ![p].kvPuts = @ + 1,
                                        ![p].trace = @ \o <<Guard("rate", TRUE)>>]
                /\ pc' = [pc EXCEPT ![p] = IF go = "reject" THEN "done" ELSE "parse"]
                /\ resp' = [resp EXCEPT ![p] =
                      IF go = "reject" THEN ErrorResponse(429, "rateLimited", <<>>)
                      ELSE @]
  /\ UNCHANGED <<env, now, req, log, csrfVars, callVars>>

\* request.json() completes, or throws on a body that is no JSON; then the
\* spam verifier runs up to its outbound call, and validation if it makes none.
ParseBody(p) ==
  /\ pc[p] = "parse"
  /\ \E body \in Bodies \cup {Unparsable, NullBody} :
       IF body \in {Unparsable, NullBody}
       THEN LET message == IF body = Unparsable THEN JsonSyntaxError
                           ELSE NullBodyError
            IN  /\ pc' = [pc EXCEPT ![p] = "done"]
                /\ resp' = [resp EXCEPT ![p] = CatchResponse(message)]
                /\ hist' = [hist EXCEPT ![p].thrown = message]
                /\ UNCHANGED loc
       ELSE LET pre == TurnstilePrecheck(env, FieldGet(body, TurnstileField))
                step == SpamStep(body, pre = "skip")
            IN  /\ loc' = [loc EXCEPT ![p].formData = body]
                /\ IF pre = "call"
                   THEN /\ pc' = [pc EXCEPT ![p] = "verify"]
                        /\ UNCHANGED <<resp, hist>>
                   ELSE /\ pc' = [pc EXCEPT ![p] = step.pc]
                        /\ resp' = [resp EXCEPT ![p] = step.resp]
                        /\ hist' = [hist EXCEPT ![p].trace = @ \o step.trace]
  /\ UNCHANGED <<env, storeVars, now, req, log, csrfVars, callVars>>

\* The siteverify request of validateTurnstileToken completes; then validation.
Verify(p) ==
  /\ pc[p] = "verify"
  /\ \E outcome \in VerifyOutcomes :
       LET step == SpamStep(loc[p].formData, TurnstileValid(outcome))
       IN  /\ pc' = [pc EXCEPT ![p] = step.pc]
           /\ resp' = [resp EXCEPT ![p] = step.resp]
           /\ hist' = [hist EXCEPT ![p].trace = @ \o step.trace,
                                   ![p].verifyCalls = @ + 1,
                                   ![p].verifyOutcome = outcome]
  /\ UNCHANGED <<env, storeVars, now, req, loc, log, csrfVars, callVars>>

\* processFormSubmission, first service: saveSubmission with its retries.
SaveToAirtable(p) ==
  /\ pc[p] = "airtable"
  /\ pc' = [pc EXCEPT ![p] = "email"]
  /\ IF AirtableConfigured(env)
     THEN \E outcomes \in CompleteOutcomes :
            /\ resp' = [resp EXCEPT ![p].airtable = saveSubmission(env, outcomes)]
            /\ hist' = [hist EXCEPT ![p].airtableCalls = @ + 1]
     ELSE UNCHANGED <<resp, hist>>
  /\ UNCHANGED <<env, storeVars, now, req, loc, log, csrfVars, callVars>>

\* processFormSubmission, second service: sendNotification with its retries;
\* then the overall success and the response of fetch.
SendEmail(p) ==
  /\ pc[p] = "email"
  /\ pc' = [pc EXCEPT ![p] = "done"]
  /\ \E outcomes \in (IF ResendConfigured(env) THEN CompleteOutcomes ELSE {<<"ok">>}) :
       LET email == IF ResendConfigured(env) THEN sendNotification(env, outcomes)
                    ELSE resp[p].email
           success == OverallSuccess(resp[p].airtable, email)
       IN  /\ resp' = [resp EXCEPT ![p] =
                 [status |-> IF success THEN 200 ELSE 500, kind |-> "result",
                  success |-> success, details |-> <<>>,
                  submissionId |-> generateSubmissionId,
                  airtable |-> resp[p].airtable, email |-> email]]
           /\ hist' = [hist EXCEPT ![p].emailCalls =
                 IF ResendConfigured(env) THEN @ + 1 ELSE @]
  /\ UNCHANGED <<env, storeVars, now, req, loc, log, csrfVars, callVars>>

TickPipeline ==
  /\ Tick
  /\ UNCHANGED <<env, storeVars, pipelineVars, log, csrfVars, callVars>>

Next ==
  \/ \E p \in PipelineHandlers : Receive(p)
  \/ \E p \in PipelineHandlers : KvGet(p)
  \/ \E p \in PipelineHandlers : KvPut(p)
  \/ \E p \in PipelineHandlers : ParseBody(p)
  \/ \E p \in PipelineHandlers : Verify(p)
  \/ \E p \in PipelineHandlers : SaveToAirtable(p)
  \/ \E p \in PipelineHandlers : SendEmail(p)
  \/ TickPipeline

Spec == Init /\ [][Next]_vars

-----------------------------------------------------------------------------
(* Concurrent invocations inside checkRateLimit: the get and the put of    *)
(* one check are separate steps, and other checks run between them.        *)

RaceEnvs ==
  [RATE_LIMITER : {TRUE}, RATE_LIMIT_REQUESTS_PER_MINUTE : 1..MaxLimit,
   TURNSTILE_SECRET_KEY : {FALSE}, AIRTABLE : {FALSE}, RESEND : {"none"}]

InitRace ==
  /\ env \in RaceEnvs
  /\ kv = <<>>
  /\ kvExpiry = [k \in Keys |-> 0]
  /\ now = TickMs
  /\ pc = [p \in RaceHandlers |-> "idle"]
  /\ req = [p \in RaceHandlers |-> NoRequest]
  /\ loc = [p \in RaceHandlers |-> InitLocals]
  /\ resp = [p \in RaceHandlers |-> NoResponse]
  /\ hist = [p \in RaceHandlers |-> InitHistory]
  /\ log = <<>>
  /\ csrfReq = <<>> /\ csrfResult = Null
  /\ callArgs = <<>> /\ callResult = <<>>

\* A form submission with a valid anti-forgery pair reaches checkRateLimit.
ReceiveSubmission(p) ==
  \E ipHeader \in IpHeaders :
    ReceiveRequest(p, "POST", "/", ipHeader, ListedOrigin, TRUE)

NextRace ==
  \/ \E p \in RaceHandlers : ReceiveSubmission(p)
  \/ \E p \in RaceHandlers : KvGet(p)
  \/ \E p \in RaceHandlers : KvPut(p)
  \/ TickPipeline

SpecRace == InitRace /\ [][NextRace]_vars

-----------------------------------------------------------------------------
(* validateCsrfToken as a function of the request's headers.               *)

\* Token values: the strings of at most two characters over 'a' and '='.
TokenChars == {"a", "="}
TokenValues ==
  {<<>>} \cup {<<c>> : c \in TokenChars}
         \cup {<<c, d>> : c \in TokenChars, d \in TokenChars}

\* Cookie lists: the token cookie alone, after a session cookie, or absent.
CookieLists ==
  {<<<<CsrfCookieName, v>>>> : v \in TokenValues}
    \cup {<<SessionCookie, <<CsrfCookieName, v>>>> : v \in TokenValues}
    \cup {<<SessionCookie>>}

\* header: the X-CSRF-Token value (Null: not sent); cookies: the cookies sent.
CsrfInputs ==
  [header : TokenValues \cup {Null}, cookies : CookieLists \cup {<<>>}]

InitCsrf ==
  /\ csrfReq \in CsrfInputs
  /\ csrfResult = [done |-> FALSE, valid |-> FALSE]
  /\ callArgs = <<>> /\ callResult = <<>>
  /\ env = <<>> /\ kv = <<>> /\ kvExpiry = <<>> /\ now = 0
  /\ pc = <<>> /\ req = <<>> /\ loc = <<>> /\ resp = <<>> /\ hist = <<>>
  /\ log = <<>>

ValidateCsrf ==
  /\ ~csrfResult.done
  /\ csrfResult' =
       [done |-> TRUE,
        valid |-> validateCsrfToken(CsrfHeaders(csrfReq.header, csrfReq.cookies))]
  /\ UNCHANGED <<env, storeVars, now, pipelineVars, log, csrfReq, callVars>>

NextCsrf == ValidateCsrf

SpecCsrf == InitCsrf /\ [][NextCsrf]_vars

-----------------------------------------------------------------------------
(* Properties of the request pipeline (Spec).                              *)

\* The order in which fetch evaluates its guards.
GuardOrder == <<"method", "csrf", "rate", "spam", "validation">>

\* The response kind with which each guard rejects.
RejectionOf(guard) ==
  CASE guard = "method" -> "methodNotAllowed"
    [] guard = "csrf" -> "csrfInvalid"
    [] guard = "rate" -> "rateLimited"
    [] guard = "spam" -> "spamFailed"
    [] guard = "validation" -> "validationFailed"

AllGuardsPassed(tr) ==
  /\ Len(tr) = Len(GuardOrder)
  /\ \A i \in 1..Len(tr) : tr[i].guard = GuardOrder[i] /\ tr[i].passed

\* C1: the guards of a request are evaluated in the order method,
\* anti-forgery token, rate limit, spam verification, field validation; a
\* guard is evaluated only after every earlier one passed, and the first guard
\* that fails ends the request with that guard's rejection response.
C1_GuardOrder ==
  \A p \in DOMAIN pc :
    LET tr == hist[p].trace
    IN  /\ Len(tr) <= Len(GuardOrder)
        /\ \A i \in 1..Len(tr) : tr[i].guard = GuardOrder[i]
        /\ \A i \in 1..(Len(tr) - 1) : tr[i].passed
        /\ (Len(tr) > 0 /\ ~tr[Len(tr)].passed) =>
              /\ pc[p] = "done"
              /\ resp[p].kind = RejectionOf(tr[Len(tr)].guard)
              /\ ~resp[p].success

\* A request that passed four guards and is rejected by the fifth, with the
\* limiter and the spam verifier both configured.
C1_Witness ==
  \E p \in DOMAIN pc :
    /\ env.RATE_LIMITER /\ env.TURNSTILE_SECRET_KEY
    /\ Len(hist[p].trace) = 5
    /\ ~hist[p].trace[5].passed
    /\ resp[p].status = 400
    /\ hist[p].verifyCalls = 1

\* C2: a storage or notification adapter is invoked for a request only if all
\* five guards were evaluated for it and passed.
C2_AdaptersAfterGuards ==
  \A p \in DOMAIN pc :
    (pc[p] \in {"airtable", "email"} \/ hist[p].airtableCalls > 0
       \/ hist[p].emailCalls > 0 \/ resp[p].kind = "result")
      => AllGuardsPassed(hist[p].trace)

\* Both adapters have been invoked for a request.
C2_Witness ==
  \E p \in DOMAIN pc :
    /\ hist[p].airtableCalls = 1 /\ hist[p].emailCalls = 1
    /\ env.RATE_LIMITER /\ env.TURNSTILE_SECRET_KEY
    /\ resp[p].kind = "result"

\* C4: when the key-value store is configured and a get or put of it fails,
\* checkRateLimit allows the request and the pipeline goes on to the next
\* guard; the request is not answered with an error because of the failure.
C4_StoreFailureFailsOpen ==
  \A p \in DOMAIN pc :
    hist[p].kvError =>
      /\ loc[p].rlDone /\ loc[p].rl.allowed
      /\ resp[p].kind # "internalError"

\* C7: the spam verification service is called for a request only after the
\* rate-limit check of that request returned allowed; a request that is over
\* its budget causes no verification call.
C7_VerifyAfterRateLimit ==
  \A p \in DOMAIN pc :
    /\ (pc[p] = "verify" \/ hist[p].verifyCalls > 0) =>
          /\ loc[p].rlDone /\ loc[p].rl.allowed
          /\ Len(hist[p].trace) >= 3 /\ hist[p].trace[3] = Guard("rate", TRUE)
    /\ resp[p].kind = "rateLimited" => hist[p].verifyCalls = 0

\* A request over its budget is rejected with 429 while the verification
\* secret is configured: no verification call was made for it.
C7_Witness ==
  \E p \in DOMAIN pc :
    /\ env.TURNSTILE_SECRET_KEY
    /\ pc[p] = "done" /\ resp[p].status = 429
    /\ loc[p].rlDone /\ ~loc[p].rl.allowed
    /\ hist[p].verifyCalls = 0

\* Whether the body of the request has been parsed.
BodyParsed(p) == loc[p].formData # <<>>

\* C9: when TURNSTILE_SECRET_KEY is not configured, the spam verifier returns
\* true for every token, absent and empty ones included, and makes no
\* outbound verification call.
C9_NoSecretSkipsVerification ==
  ~env.TURNSTILE_SECRET_KEY =>
    \A p \in DOMAIN pc :
      /\ pc[p] # "verify" /\ hist[p].verifyCalls = 0
      /\ BodyParsed(p) =>
           /\ Len(hist[p].trace) >= 5
           /\ hist[p].trace[4] = Guard("spam", TRUE)
           /\ resp[p].kind # "spamFailed"

\* Without a secret, a body that carries no token has passed the spam guard.
C9_Witness ==
  \E p \in DOMAIN pc :
    /\ ~env.TURNSTILE_SECRET_KEY
    /\ BodyParsed(p)
    /\ FieldGet(loc[p].formData, TurnstileField) = Null
    /\ hist[p].trace[4] = Guard("spam", TRUE)
    /\ hist[p].verifyCalls = 0

\* C10: when TURNSTILE_SECRET_KEY is configured and the submitted token is
\* absent or empty, the request is rejected with status 403 and no outbound
\* verification call is made.
C10_MissingTokenRejected ==
  env.TURNSTILE_SECRET_KEY =>
    \A p \in DOMAIN pc :
      (BodyParsed(p) /\ Falsy(FieldGet(loc[p].formData, TurnstileField))) =>
        /\ pc[p] = "done"
        /\ resp[p].status = 403 /\ resp[p].kind = "spamFailed"
        /\ hist[p].trace[Len(hist[p].trace)] = Guard("spam", FALSE)
        /\ hist[p].verifyCalls = 0

\* With a secret, a body with an empty token has been rejected.
C10_Witness ==
  \E p \in DOMAIN pc :
    /\ env.TURNSTILE_SECRET_KEY
    /\ BodyParsed(p)
    /\ FieldGet(loc[p].formData, TurnstileField) = <<>>
    /\ resp[p].status = 403
    /\ hist[p].verifyCalls = 0

-----------------------------------------------------------------------------
(* Properties of concurrent rate-limit checks (SpecRace).                  *)

\* The handlers that checkRateLimit has allowed for a client key.
Admitted(key) ==
  {p \in DOMAIN pc : pc[p] = "parse" /\ ClientKey(req[p].ip) = key}

\* C6: the read-modify-write of checkRateLimit is not atomic: the list a
\* check puts is the one built from its own read, whatever was put since that
\* read, so interleaved checks of one client can all be allowed from the same
\* read and a later put overwrites an earlier one.
C6_PutFromOwnRead ==
  [][\A p \in DOMAIN pc :
       (pc[p] = "kvPut" /\ pc'[p] = "parse") =>
         /\ Len(RecentTimestamps(loc[p].read, loc[p].now)) < rateLimitPerMinute(env)
         /\ kv'[ClientKey(req[p].ip)] =
              Append(RecentTimestamps(loc[p].read, loc[p].now), loc[p].now)]_vars

\* More checks of one client are allowed within one window than the limit,
\* and the list stored holds fewer timestamps than checks were allowed.
C6_Witness ==
  \E key \in Keys :
    /\ Cardinality(Admitted(key)) > rateLimitPerMinute(env)
    /\ \A p, q \in Admitted(key) : loc[p].now - loc[q].now < WindowMs
    /\ key \in DOMAIN kv
    /\ Len(kv[key]) < Cardinality(Admitted(key))

-----------------------------------------------------------------------------
(* Properties of validateCsrfToken (SpecCsrf).                             *)

\* The value of the first cookie named CsrfCookieName (Null: there is none).
SentCookieValue(cookies) ==
  LET hits == {i \in 1..Len(cookies) : cookies[i][1] = CsrfCookieName}
  IN  IF hits = {} THEN Null
      ELSE cookies[CHOOSE i \in hits : \A j \in hits : i <= j][2]

\* C8: validateCsrfToken returns false when the header or the cookie is
\* absent and for every pair of values that are not identical; it returns
\* true only when both are non-empty and equal, values that contain '=' and
\* Cookie headers with several cookies included.
C8_ExactEquality ==
  (csrfResult.done /\ csrfResult.valid) =>
    /\ csrfReq.header # Null /\ csrfReq.header # <<>>
    /\ SentCookieValue(csrfReq.cookies) # Null
    /\ SentCookieValue(csrfReq.cookies) = csrfReq.header

-----------------------------------------------------------------------------
(* Properties of the spam verifier's outbound call (Spec).                 *)

\* Whether the spam guard has been evaluated for the request, and passed.
SpamGuardPassed(p) ==
  Len(hist[p].trace) >= 4 /\ hist[p].trace[4] = Guard("spam", TRUE)

\* C11: with secret and token present, one verification call is made per
\* request and never repeated; the request passes the spam guard only if the
\* verdict field of the response is the boolean true, and a network failure,
\* an unparsable response or a response without a true verdict gives 403.
C11_OnlyBooleanTrueVerdict ==
  \A p \in DOMAIN pc :
    /\ hist[p].verifyCalls <= 1
    /\ (hist[p].verifyCalls = 1 /\ SpamGuardPassed(p)) =>
          hist[p].verifyOutcome = "true"
    /\ (hist[p].verifyCalls = 1 /\ hist[p].verifyOutcome # "true") =>
          /\ pc[p] = "done"
          /\ resp[p].status = 403 /\ resp[p].kind = "spamFailed"

-----------------------------------------------------------------------------
(* Properties of processFormSubmission (Spec).                             *)

\* Whether fetch has returned the result of processFormSubmission.
Dispatched(p) == pc[p] = "done" /\ resp[p].kind = "result"

\* C12: the overall success of a dispatch is the logical OR of the success
\* flags of the configured services: true when the record store succeeds and
\* the notifier fails, false when both fail or when no service is configured.
C12_SuccessIsOr ==
  \A p \in DOMAIN pc :
    Dispatched(p) =>
      /\ resp[p].success =
           ((env.AIRTABLE /\ resp[p].airtable.success)
              \/ (env.RESEND # "none" /\ resp[p].email.success))
      /\ (~env.AIRTABLE /\ env.RESEND = "none") => ~resp[p].success
      /\ resp[p].status = IF resp[p].success THEN 200 ELSE 500

\* The record store succeeded, the notifier failed, and the dispatch succeeded.
C12_Witness ==
  \E p \in DOMAIN pc :
    /\ Dispatched(p)
    /\ env.AIRTABLE /\ env.RESEND = "full"
    /\ resp[p].airtable.success /\ ~resp[p].email.success
    /\ resp[p].success /\ resp[p].status = 200

-----------------------------------------------------------------------------
(* retryRequest called on its own, for every sequence of outcomes that its *)
(* attempts can meet (SpecRetry).                                          *)

\* What the attempts would come to, one outcome per possible attempt.
RetryInputs == [1..MaxRetries -> FetchOutcomes]

InitRetry ==
  /\ callArgs \in RetryInputs
  /\ callResult = <<>>
  /\ env = <<>> /\ kv = <<>> /\ kvExpiry = <<>> /\ now = 0
  /\ pc = <<>> /\ req = <<>> /\ loc = <<>> /\ resp = <<>> /\ hist = <<>>
  /\ log = <<>>
  /\ csrfReq = <<>> /\ csrfResult = Null

CallRetryRequest ==
  /\ callResult = <<>>
  /\ callResult' = <<retryRequest(callArgs)>>
  /\ UNCHANGED <<env, storeVars, now, pipelineVars, log, csrfVars, callArgs>>

NextRetry == CallRetryRequest

SpecRetry == InitRetry /\ [][NextRetry]_vars

\* The attempts that end the loop before it is exhausted.
StoppingAttempts(outcomes) ==
  {i \in 1..Len(outcomes) : outcomes[i] \in {"ok", "4xx"}}

\* C14: retryRequest with maxRetries = 3 makes exactly one attempt and
\* returns the response when the first outcome is a 4xx; after two 5xx and
\* then a success it returns the success after exactly 3 attempts; in general
\* it stops at the first success or 4xx outcome.
C14_StopsAtFirstSuccessOr4xx ==
  callResult # <<>> =>
    LET r == callResult[1]
        stops == StoppingAttempts(callArgs)
    IN  /\ callArgs[1] = "4xx" =>
              r.attempts = 1 /\ r.final = "4xx" /\ ~r.thrown
        /\ callArgs = <<"5xx", "5xx", "ok">> =>
              r.attempts = 3 /\ r.final = "ok" /\ ~r.thrown
        /\ stops # {} =>
              /\ r.attempts \in stops
              /\ \A i \in stops : r.attempts <= i
              /\ r.final = callArgs[r.attempts] /\ ~r.thrown
        /\ Len(r.delays) = r.attempts - 1

\* Two server errors, then a success on the third attempt.
C14_Witness ==
  /\ callArgs = <<"5xx", "5xx", "ok">>
  /\ callResult # <<>>
  /\ callResult[1].attempts = 3 /\ callResult[1].final = "ok"

\* C15: when retryRequest exhausts its attempts without a success or 4xx,
\* the last attempt decides: its exception is propagated if it threw, its
\* 5xx response is returned and nothing is thrown if it returned one,
\* whatever the earlier attempts came to.
C15_LastAttemptDecides ==
  (callResult # <<>> /\ StoppingAttempts(callArgs) = {}) =>
    LET r == callResult[1]
    IN  /\ r.attempts = MaxRetries
        /\ r.thrown = (callArgs[MaxRetries] = "throw")
        /\ callArgs[MaxRetries] = "5xx" => (r.final = "5xx" /\ ~r.thrown)

\* An earlier attempt threw and the last one returned a 5xx response, which
\* is returned.
C15_Witness ==
  /\ callArgs = <<"throw", "5xx", "5xx">>
  /\ callResult # <<>>
  /\ ~callResult[1].thrown /\ callResult[1].final = "5xx"

-----------------------------------------------------------------------------
(* FormValidator.sanitizeString, called on its own (SpecSanitize).         *)

\* The control character U+0000, as one character of a string.
Nul == "NUL"

\* [\x00-\x08\x0B\x0C\x0E-\x1F\x7F], of which the model's strings hold U+0000.
IsControl(c) == c = Nul

\* htmlEntities: what replace(/[&<>"']/g, ...) puts for one character.
HtmlEntity(c) ==
  CASE c = "&" -> <<"&", "a", "m", "p", ";">>
    [] c = "<" -> <<"&", "l", "t", ";">>
    [] c = ">" -> <<"&", "g", "t", ";">>
    [] c = "\"" -> <<"&", "q", "u", "o", "t", ";">>
    [] c = "'" -> <<"&", "#", "3", "9", ";">>
    [] OTHER -> <<c>>

\* A place of a string that holds no character.
Gap == "<gap>"

\* replace(/[&<>"']/g, match => htmlEntities[match]): every character gives
\* its entity, laid out in six places of which the unused ones are dropped.
EncodeHtml(s) ==
  IF s = <<>> THEN <<>>
  ELSE SelectSeq([j \in 1..(6 * Len(s)) |->
                    LET entity == HtmlEntity(s[((j - 1) \div 6) + 1])
                        k == ((j - 1) % 6) + 1
                    IN  IF k <= Len(entity) THEN entity[k] ELSE Gap],
                 LAMBDA c : c # Gap)

\* replace(/\0/g, '') and the removal of the other control characters.
RemoveControl(s) == SelectSeq(s, LAMBDA c : ~IsControl(c))

\* replace(/\s+/g, ' '): every run of whitespace becomes one space.
CollapseSpaces(s) ==
  IF s = <<>> THEN <<>>
  ELSE SelectSeq([i \in 1..Len(s) |->
                    IF ~IsSpace(s[i]) THEN s[i]
                    ELSE IF i > 1 /\ IsSpace(s[i - 1]) THEN Gap ELSE " "],
                 LAMBDA c : c # Gap)

\* substring(0, 10000)
MaxSanitizedLength == 10000

Substring(s, n) == IF Len(s) <= n THEN s ELSE SubSeq(s, 1, n)

sanitizeString(value) ==
  Substring(CollapseSpaces(RemoveControl(EncodeHtml(Trim(value)))),
            MaxSanitizedLength)

\* Strings of at most MaxStringLen characters over a letter, two characters
\* that are entity-encoded, a space and a control character.
MaxStringLen == 3
SanitizeChars == {"a", "&", "<", " ", Nul}
ShortSanitizeInputs == UNION {[1..n -> SanitizeChars] : n \in 0..MaxStringLen}

\* Strings the encoder makes longer than MaxSanitizedLength: letters up to
\* two or five places before the limit and then a '&', and one letter more
\* than the limit.
LongSanitizeInputs ==
  { [i \in 1..(MaxSanitizedLength - 2) |-> "a"] \o <<"&">>,
    [i \in 1..(MaxSanitizedLength - 5) |-> "a"] \o <<"&">>,
    [i \in 1..(MaxSanitizedLength + 1) |-> "a"] }

SanitizeInputs == ShortSanitizeInputs \cup LongSanitizeInputs

InitSanitize ==
  /\ callArgs \in SanitizeInputs
  /\ callResult = <<>>
  /\ env = <<>> /\ kv = <<>> /\ kvExpiry = <<>> /\ now = 0
  /\ pc = <<>> /\ req = <<>> /\ loc = <<>> /\ resp = <<>> /\ hist = <<>>
  /\ log = <<>>
  /\ csrfReq = <<>> /\ csrfResult = Null

\* sanitizeString(x)
Sanitize ==
  /\ callResult = <<>>
  /\ callResult' = <<sanitizeString(callArgs)>>
  /\ UNCHANGED <<env, storeVars, now, pipelineVars, log, csrfVars, callArgs>>

\* sanitizeString(sanitizeString(x))
SanitizeAgain ==
  /\ Len(callResult) = 1
  /\ callResult' = Append(callResult, sanitizeString(callResult[1]))
  /\ UNCHANGED <<env, storeVars, now, pipelineVars, log, csrfVars, callArgs>>

NextSanitize == Sanitize \/ SanitizeAgain

SpecSanitize == InitSanitize /\ [][NextSanitize]_vars

\* C16: sanitizeString is idempotent: sanitizing the sanitized string gives
\* the sanitized string again, for every string, those with '&', '<', '>',
\* quotes or encoded entities included.
C16_SanitizeIdempotent ==
  Len(callResult) = 2 => callResult[2] = callResult[1]

-----------------------------------------------------------------------------
(* The submission handed to the adapters, and the metadata each adapter     *)
(* takes from it (SpecMetadata). Objects are sequences of <<key, value>>    *)
(* pairs in insertion order, as Object.keys / Object.entries give them.     *)

\* obj[key] = value: an existing key keeps its place.
ObjSet(obj, key, value) ==
  IF \E i \in 1..Len(obj) : obj[i][1] = key
  THEN [i \in 1..Len(obj) |-> IF obj[i][1] = key THEN <<key, value>> ELSE obj[i]]
  ELSE Append(obj, <<key, value>>)

\* {...target, ...source}
RECURSIVE ObjAssign(_, _)
ObjAssign(target, source) ==
  IF source = <<>> THEN target
  ELSE ObjAssign(ObjSet(target, Head(source)[1], Head(source)[2]), Tail(source))

\* The fields sanitizeFormData copies as they are.
SystemFields == {"timestamp", "ip", "userAgent", "origin"}

\* FormValidator.sanitizeFormData, for string values.
sanitizeFormData(formData) ==
  [i \in 1..Len(formData) |->
     IF formData[i][1] \in SystemFields THEN formData[i]
     ELSE <<formData[i][1], sanitizeString(formData[i][2])>>]

\* x || 'unknown'
Unknown == <<"u", "n", "k", "n", "o", "w", "n">>
OrUnknown(x) == IF Falsy(x) THEN Unknown ELSE x

\* x || ''
OrEmpty(x) == IF Falsy(x) THEN <<>> ELSE x

\* new Date().toISOString() and its date part, as strings fixed by the clock.
DayMs == 86400000
IsoDateTime(t) == <<"datetime", ToString(t)>>
IsoDate(t) == <<"date", ToString(t \div DayMs)>>

\* src/src/index.js: the sanitized body with the metadata spread over it.
submissionDataSpread(formData, headers, t) ==
  ObjAssign(sanitizeFormData(formData),
            << <<"timestamp", IsoDateTime(t)>>,
               <<"ip", OrUnknown(HeaderGet(headers, "CF-Connecting-IP"))>>,
               <<"userAgent", OrUnknown(HeaderGet(headers, "User-Agent"))>>,
               <<"origin", OrUnknown(HeaderGet(headers, "Origin"))>> >>)

\* src/unnamed/part_002: a record of six fixed fields.
submissionDataFixed(formData, headers, t) ==
  LET sanitizedData == sanitizeFormData(formData)
  IN  << <<"Name", OrEmpty(FieldGet(sanitizedData, "name"))>>,
         <<"Email", OrEmpty(FieldGet(sanitizedData, "email"))>>,
         <<"Message", OrEmpty(FieldGet(sanitizedData, "message"))>>,
         <<"Timestamp", IsoDate(t)>>,
         <<"IP Address", OrUnknown(HeaderGet(headers, "CF-Connecting-IP"))>>,
         <<"Origin",
           IF ~Falsy(HeaderGet(headers, "Origin")) THEN HeaderGet(headers, "Origin")
           ELSE OrUnknown(HeaderGet(headers, "Referer"))>> >>

\* fieldMapping[key] || this.capitalizeFirst(key), for the keys of the model.
AirtableField(key) ==
  CASE key = "name" -> "Name"
    [] key = "email" -> "Email"
    [] key = "message" -> "Message"
    [] key = "timestamp" -> "Timestamp"
    [] key = "ip" -> "IP Address"
    [] key = "userAgent" -> "User Agent"
    [] key = "origin" -> "Origin"
    [] OTHER -> key

\* AirtableService.prepareAirtableData: the fields of the record.
RECURSIVE AirtableFields(_, _)
AirtableFields(fields, formData) ==
  IF formData = <<>> THEN fields
  ELSE AirtableFields(
         ObjSet(fields, AirtableField(Head(formData)[1]), Head(formData)[2]),
         Tail(formData))

prepareAirtableData(formData) == AirtableFields(<<>>, formData)

\* The metadata each adapter sends: the Timestamp, IP Address and Origin
\* fields of the Airtable record, and the three lines that close the email.
MetadataFields == <<"Timestamp", "IP Address", "Origin">>

AdapterMetadata(submission) ==
  [airtable |-> [i \in 1..3 |->
                   FieldGet(prepareAirtableData(submission), MetadataFields[i])],
   email |-> [i \in 1..3 |-> FieldGet(submission, MetadataFields[i])]]

\* Body fields that bear the name of a metadata field.
MetadataNames ==
  <<"timestamp", "ip", "userAgent", "origin", "Timestamp", "IP Address", "Origin">>

Forged == <<"e", "v", "i", "l">>

\* The contact form followed by the forged fields whose index is in chosen.
BodyWith(chosen) ==
  ContactFields \o
    [i \in 1..Len(SelectSeq(MetadataNames,
                           LAMBDA n : \E j \in chosen : MetadataNames[j] = n)) |->
       <<SelectSeq(MetadataNames,
                   LAMBDA n : \E j \in chosen : MetadataNames[j] = n)[i], Forged>>]

\* The body without its fields that bear the name of a metadata field.
WithoutMetadataNames(formData) ==
  SelectSeq(formData,
            LAMBDA f : \A j \in 1..Len(MetadataNames) : MetadataNames[j] # f[1])

MetadataHeaders ==
  { ("User-Agent" :> <<"U", "A">>) @@ ("Referer" :> <<"r", "e", "f">>) @@ ip @@ origin :
      ip \in {<<>>, "CF-Connecting-IP" :> <<"A">>},
      origin \in {<<>>, "Origin" :> <<"o", "r", "g">>} }

MetadataInputs ==
  [revision : {"index.js", "part_002"},
   body : {BodyWith(chosen) : chosen \in SUBSET (1..Len(MetadataNames))},
   headers : MetadataHeaders,
   now : {TickMs}]

InitMetadata ==
  /\ callArgs \in MetadataInputs
  /\ callResult = <<>>
  /\ env = <<>> /\ kv = <<>> /\ kvExpiry = <<>> /\ now = 0
  /\ pc = <<>> /\ req = <<>> /\ loc = <<>> /\ resp = <<>> /\ hist = <<>>
  /\ log = <<>>
  /\ csrfReq = <<>> /\ csrfResult = Null

\* What fetch of a revision hands to processFormSubmission.
SubmissionOf(revision, formData, headers, t) ==
  IF revision = "index.js" THEN submissionDataSpread(formData, headers, t)
  ELSE submissionDataFixed(formData, headers, t)

BuildSubmissionSpread ==
  /\ callResult = <<>> /\ callArgs.revision = "index.js"
  /\ callResult' = <<submissionDataSpread(callArgs.body, callArgs.headers, callArgs.now)>>
  /\ UNCHANGED <<env, storeVars, now, pipelineVars, log, csrfVars, callArgs>>

BuildSubmissionFixed ==
  /\ callResult = <<>> /\ callArgs.revision = "part_002"
  /\ callResult' = <<submissionDataFixed(callArgs.body, callArgs.headers, callArgs.now)>>
  /\ UNCHANGED <<env, storeVars, now, pipelineVars, log, csrfVars, callArgs>>

NextMetadata == BuildSubmissionSpread \/ BuildSubmissionFixed

SpecMetadata == InitMetadata /\ [][NextMetadata]_vars

\* C17: the metadata handed to the adapters is never taken from the request
\* body: a body and the same body without its fields named timestamp, ip,
\* userAgent, origin, Timestamp, 'IP Address' or Origin, sent with the same
\* headers at the same time, give the adapters the same metadata.
C17_MetadataNotFromBody ==
  callResult # <<>> =>
    AdapterMetadata(callResult[1]) =
      AdapterMetadata(SubmissionOf(callArgs.revision,
                                   WithoutMetadataNames(callArgs.body),
                                   callArgs.headers, callArgs.now))

-----------------------------------------------------------------------------
(* The origin policy in the pipeline (Spec).                               *)

\* The Access-Control-Allow-Origin header of every response to the request.
CorsAllowOrigin(p) == AccessControlAllowOrigin(req[p].origin, AllowedOrigins)

\* C18: a POST whose Origin the allow-list does not permit is rejected by the
\* origin policy as the first step: none of the anti-forgery, rate-limit,
\* spam and validation guards runs for it, no adapter is invoked, and it is
\* not answered as a processed submission.
C18_OriginPolicyFirst ==
  \A p \in DOMAIN pc :
    (req[p].method = "POST" /\ ~validateOrigin(req[p].origin, AllowedOrigins)) =>
      /\ \A i \in 1..Len(hist[p].trace) : hist[p].trace[i].guard = "method"
      /\ pc[p] = "done"
      /\ resp[p].kind # "result" /\ ~resp[p].success
      /\ hist[p].airtableCalls = 0 /\ hist[p].emailCalls = 0

-----------------------------------------------------------------------------
(* The accepted submission, end to end (Spec).                             *)

\* A finished POST / with the contact form as body, a valid anti-forgery
\* pair, the client under its rate limit and no verification secret.
AcceptedContactRequest(p) ==
  /\ pc[p] = "done"
  /\ req[p].method = "POST" /\ req[p].path = "/"
  /\ ~env.TURNSTILE_SECRET_KEY
  /\ Len(hist[p].trace) >= 3
  /\ hist[p].trace[2] = Guard("csrf", TRUE)
  /\ hist[p].trace[3] = Guard("rate", TRUE)
  /\ loc[p].formData = ContactFields

\* C19 as stated: such a request is answered with status 200, success true
\* and a non-empty submissionId.
C19_AcceptedIs200 ==
  \A p \in DOMAIN pc :
    AcceptedContactRequest(p) =>
      /\ resp[p].status = 200 /\ resp[p].success
      /\ resp[p].submissionId # <<>>

\* C19, amended: such a request is dispatched and answered with a non-empty
\* submissionId; the answer is 200 with success true if the record store or
\* the notifier succeeded, and 500 with success false otherwise.
C19_AcceptedIsDispatched ==
  \A p \in DOMAIN pc :
    AcceptedContactRequest(p) =>
      /\ resp[p].kind = "result"
      /\ resp[p].submissionId # <<>>
      /\ resp[p].success = (resp[p].airtable.success \/ resp[p].email.success)
      /\ resp[p].status = IF resp[p].success THEN 200 ELSE 500

\* Such a request, answered 200 after the record store succeeded.
C19_Witness ==
  \E p \in DOMAIN pc :
    /\ AcceptedContactRequest(p)
    /\ resp[p].status = 200 /\ resp[p].success
    /\ resp[p].airtable.success
    /\ resp[p].submissionId # <<>>

-----------------------------------------------------------------------------
(* The responses to guard failures (Spec).                                 *)

\* The status with which each guard after the method check rejects.
RejectionStatus(guard) ==
  CASE guard = "csrf" -> 403
    [] guard = "rate" -> 429
    [] guard = "spam" -> 403
    [] guard = "validation" -> 400

\* C20: each guard failure has one fixed response with success false: 403
\* for the anti-forgery guard, 429 for the rate limit, 403 for the spam
\* guard, 400 for validation with details equal to the list of validation
\* errors; a request over the per-minute limit gets 429.
C20_RejectionResponses ==
  \A p \in DOMAIN pc :
    LET tr == hist[p].trace
        last == tr[Len(tr)]
    IN  /\ (Len(tr) >= 2 /\ ~last.passed) =>
             /\ pc[p] = "done"
             /\ resp[p].status = RejectionStatus(last.guard)
             /\ ~resp[p].success
             /\ resp[p].details =
                  IF last.guard = "validation"
                  THEN validateFormData(loc[p].formData, RequiredFieldsList).errors
                  ELSE <<>>
             /\ last.guard = "validation" => resp[p].details # <<>>
        /\ (loc[p].rlDone /\ ~loc[p].rl.allowed) =>
             /\ Len(RecentTimestamps(loc[p].read, loc[p].now))
                  >= rateLimitPerMinute(env)
             /\ resp[p].status = 429 /\ ~resp[p].success

\* A body with a malformed email address is answered 400 with the error.
C20_Witness ==
  \E p \in DOMAIN pc :
    /\ pc[p] = "done" /\ resp[p].status = 400
    /\ FieldGet(loc[p].formData, "email") = <<"b", "a", "d">>
    /\ resp[p].details # <<>>
    /\ resp[p].details =
         validateFormData(loc[p].formData, RequiredFieldsList).errors

-----------------------------------------------------------------------------
(* Routing by method and path (Spec).                                      *)

\* C21: every request that is not OPTIONS, not GET /csrf-token and not
\* POST / is answered with 405 and not processed; this covers POST to a path
\* other than /.
C21_OtherRequests405 ==
  \A p \in DOMAIN pc :
    (/\ req[p] # NoRequest
     /\ req[p].method # "OPTIONS"
     /\ ~(req[p].method = "GET" /\ req[p].path = "/csrf-token")
     /\ ~(req[p].method = "POST" /\ req[p].path = "/")) =>
      /\ pc[p] = "done"
      /\ resp[p].status = 405 /\ ~resp[p].success
      /\ hist[p].trace = <<Guard("method", FALSE)>>
      /\ hist[p].airtableCalls = 0 /\ hist[p].emailCalls = 0

-----------------------------------------------------------------------------
(* Errors that reach the catch block of fetch (Spec).                      *)

\* C22: an error that no guard and no adapter handles (an unparsable body,
\* an exception of a collaborator) gives status 500 with the fixed body
\* {success: false, error: 'Internal server error...'}; nothing of the
\* exception's message is in the response.
C22_GenericInternalError ==
  \A p \in DOMAIN pc :
    /\ hist[p].thrown # "" =>
         /\ pc[p] = "done"
         /\ resp[p] = [status |-> 500, kind |-> "internalError",
                       success |-> FALSE, details |-> <<>>,
                       submissionId |-> <<>>, airtable |-> NotAttempted,
                       email |-> NotAttempted]
         /\ hist[p].airtableCalls = 0 /\ hist[p].emailCalls = 0
    /\ resp[p].kind = "internalError" => hist[p].thrown # ""

\* A body that is no JSON has been answered with the generic 500.
C22_Witness ==
  \E p \in DOMAIN pc :
    /\ hist[p].thrown = JsonSyntaxError
    /\ resp[p].status = 500 /\ resp[p].details = <<>>

-----------------------------------------------------------------------------
(* FormValidator.validateFormData on typed field values (SpecValidate).    *)

\* The values a field of the parsed body takes: strings, numbers, booleans.
FieldValues ==
  { <<>>, <<" ">>, <<"J", "o">>, <<"J", "1">>,
    NumberZero, NumberValue(<<"7">>),
    BooleanFalse, BooleanValue(<<"t", "r", "u", "e">>) }

\* "absent" stands for a body without the field.
Absent == <<"<absent>">>

TypedBody(name, age) ==
  (IF name = Absent THEN <<>> ELSE <<<<"name", name>>>>)
    \o (IF age = Absent THEN <<>> ELSE <<<<"age", age>>>>)

RequiredLists ==
  { <<>>, <<"name">>, <<"age">>, <<"name", "age">>, <<"age", "name">> }

ValidateInputs ==
  { [formData |-> TypedBody(name, age), required |-> r] :
      name \in FieldValues \cup {Absent}, age \in FieldValues \cup {Absent},
      r \in RequiredLists }

InitValidate ==
  /\ callArgs \in ValidateInputs
  /\ callResult = <<>>
  /\ env = <<>> /\ kv = <<>> /\ kvExpiry = <<>> /\ now = 0
  /\ pc = <<>> /\ req = <<>> /\ loc = <<>> /\ resp = <<>> /\ hist = <<>>
  /\ log = <<>>
  /\ csrfReq = <<>> /\ csrfResult = Null

CallValidateFormData ==
  /\ callResult = <<>>
  /\ callResult' = <<validateFormData(callArgs.formData, callArgs.required)>>
  /\ UNCHANGED <<env, storeVars, now, pipelineVars, log, csrfVars, callArgs>>

NextValidate == CallValidateFormData

SpecValidate == InitValidate /\ [][NextValidate]_vars

IsRequiredError(e) == Len(e) = 2 /\ e[2] = " is required"

\* C23: for every required name and every value that is a string, a number
\* or a boolean, '<field> is required' is among the errors if and only if the
\* field is absent or its trimmed string representation is empty; and every
\* required-field error comes before every per-field-rule error.
C23_RequiredIffEmptyString ==
  Len(callResult) = 1 =>
    LET errors == callResult[1].errors
        body == callArgs.formData
    IN  /\ \A k \in 1..Len(callArgs.required) :
             LET field == callArgs.required[k]
                 absent == ~\E i \in 1..Len(body) : body[i][1] = field
             IN  (\E i \in 1..Len(errors) : errors[i] = <<field, " is required">>)
                   <=> (absent \/ Trim(StringOf(FieldGet(body, field))) = <<>>)
        /\ \A i, j \in 1..Len(errors) :
             (IsRequiredError(errors[i]) /\ ~IsRequiredError(errors[j])) => i < j

-----------------------------------------------------------------------------
(* SecurityHelper.validateOrigin and getCorsHeaders as functions of the    *)
(* Origin header and of ALLOWED_ORIGINS (SpecOrigin).                      *)

OriginChars == {"a", ".", "b"}

\* request.headers.get('Origin'): null without the header, else its value.
OriginValues ==
  {Null, <<>>}
    \cup UNION { [1..n -> OriginChars] : n \in 1..MaxStringLen }

\* Values of ALLOWED_ORIGINS: unset, empty, one suffix entry (bare and with
\* blanks around it), one exact entry, the wildcard alone and among others.
AllowedOriginsValues ==
  { Null, <<>>,
    <<".", "b">>, <<" ", ".", "b", " ">>, <<".">>, <<".", "a", "b">>,
    <<"a", ".", "b">>, <<"b">>,
    <<"*">>, <<"a", ",", "*">>, <<"*", ",", " ", ".", "b">>,
    <<"a", ",", ".", "b">> }

OriginInputs ==
  { [origin |-> o, allowedOrigins |-> a] :
      o \in OriginValues, a \in AllowedOriginsValues }

InitOrigin ==
  /\ callArgs \in OriginInputs
  /\ callResult = <<>>
  /\ env = <<>> /\ kv = <<>> /\ kvExpiry = <<>> /\ now = 0
  /\ pc = <<>> /\ req = <<>> /\ loc = <<>> /\ resp = <<>> /\ hist = <<>>
  /\ log = <<>>
  /\ csrfReq = <<>> /\ csrfResult = Null

\* Both functions are applied to the same request and configuration.
CallOriginPolicy ==
  /\ callResult = <<>>
  /\ callResult' =
       <<[valid |-> validateOrigin(callArgs.origin, callArgs.allowedOrigins),
          allowOrigin |-> AccessControlAllowOrigin(callArgs.origin,
                                                   callArgs.allowedOrigins)]>>
  /\ UNCHANGED <<env, storeVars, now, pipelineVars, log, csrfVars, callArgs>>

NextOrigin == CallOriginPolicy

SpecOrigin == InitOrigin /\ [][NextOrigin]_vars

\* The entries of the configured list, none when it is unset or empty.
ConfiguredEntries == AllowedOriginsList(callArgs.allowedOrigins, <<>>)

\* C24: with a list whose only entry is a suffix entry ('.b'), validateOrigin
\* is true if and only if the origin ends with exactly that entry; with a
\* list that contains '*', validateOrigin is true for every non-empty origin.
C24_SuffixAndWildcard ==
  Len(callResult) = 1 =>
    /\ (Len(ConfiguredEntries) = 1 /\ StartsWith(ConfiguredEntries[1], <<".">>)) =>
         (callResult[1].valid <=>
            (callArgs.origin # Null /\ EndsWith(callArgs.origin, ConfiguredEntries[1])))
    /\ (Includes(ConfiguredEntries, <<"*">>) /\ callArgs.origin \notin {Null, <<>>}) =>
         callResult[1].valid

\* An origin that is longer than the one suffix entry and ends with it has
\* been found valid.
C24_Witness ==
  /\ Len(callResult) = 1 /\ callResult[1].valid
  /\ callArgs.allowedOrigins = <<".", "b">>
  /\ callArgs.origin = <<"a", ".", "b">>

\* C25: without an Origin header validateOrigin is false for every list, and
\* getCorsHeaders sets Access-Control-Allow-Origin to 'null' for every list.
C25_NoOriginNotAllowed ==
  (Len(callResult) = 1 /\ callArgs.origin = Null) =>
    /\ ~callResult[1].valid
    /\ callResult[1].allowOrigin = <<"n", "u", "l", "l">>

\* C26: with an empty or unset list validateOrigin is false for every origin
\* and Access-Control-Allow-Origin is neither the request's origin nor '*'.
C26_EmptyListAllowsNothing ==
  (Len(callResult) = 1 /\ callArgs.allowedOrigins \in {Null, <<>>}) =>
    /\ ~callResult[1].valid
    /\ callResult[1].allowOrigin # <<"*">>
    /\ callResult[1].allowOrigin # callArgs.origin

-----------------------------------------------------------------------------
(* Logger.writeLog and Logger.sanitizeLogData (SpecLogger).                *)

\* The values of the data passed to the logger: scalars and objects whose
\* fields are <<key, value>> pairs in insertion order.
LogString(s) == [kind |-> "string", scalar |-> s, fields |-> <<>>]
LogNumber(s) == [kind |-> "number", scalar |-> s, fields |-> <<>>]
LogBoolean(s) == [kind |-> "boolean", scalar |-> s, fields |-> <<>>]
LogNull == [kind |-> "null", scalar |-> "", fields |-> <<>>]
LogObject(fields) == [kind |-> "object", scalar |-> "", fields |-> fields]

\* if (sanitized[field]): the value is neither null, '', 0 nor false.
LogTruthy(v) ==
  ~ \/ v.kind = "null"
    \/ v.kind = "string" /\ v.scalar = ""
    \/ v.kind = "number" /\ v.scalar = "0"
    \/ v.kind = "boolean" /\ v.scalar = "false"

sensitiveFields ==
  {"password", "token", "key", "secret", "apiKey", "authorization", "cookie",
   "session"}

\* The field names the redaction guarantee is stated for.
SecretFieldNames ==
  {"password", "token", "key", "secret", "authorization", "cookie", "session"}

Redacted == LogString("[REDACTED]")

\* Logger.sanitizeLogData: mask the sensitive fields that hold a truthy
\* value, then sanitize every value that is still an object.
RECURSIVE sanitizeLogData(_)
sanitizeLogData(data) ==
  IF data.kind # "object" THEN data
  ELSE LogObject(
         [i \in 1..Len(data.fields) |->
            LET key == data.fields[i][1]
                value == data.fields[i][2]
                masked == IF key \in sensitiveFields /\ LogTruthy(value)
                          THEN Redacted ELSE value
            IN  <<key, IF masked.kind = "object" THEN sanitizeLogData(masked)
                       ELSE masked>>])

LogLeaves ==
  { LogString("s"), LogString("t"), LogString(""), LogNumber("0"),
    LogBoolean("false"), LogNull }

LogInner == { LogObject(<<<<k, v>>>>) : k \in {"token", "id"}, v \in LogLeaves }

LogMiddle == { LogObject(<<<<"user", v>>>>) : v \in LogInner }

\* The data objects logged: a field password or ctx holding a scalar, an
\* object or an object within an object.
LogData ==
  { LogObject(<<<<k, v>>>>) :
      k \in {"password", "ctx"}, v \in LogLeaves \cup LogInner \cup LogMiddle }

InitLogger ==
  /\ callArgs \in LogData \X LogData
  /\ callResult = <<>>
  /\ env = <<>> /\ kv = <<>> /\ kvExpiry = <<>> /\ now = 0
  /\ pc = <<>> /\ req = <<>> /\ loc = <<>> /\ resp = <<>> /\ hist = <<>>
  /\ log = <<>>
  /\ csrfReq = <<>> /\ csrfResult = Null

\* Logger.writeLog for the next of the two data objects; callResult is the
\* console output.
writeLog ==
  /\ Len(callResult) < Len(callArgs)
  /\ callResult' = Append(callResult,
                          [level |-> "INFO", message |-> "m",
                           data |-> sanitizeLogData(callArgs[Len(callResult) + 1])])
  /\ UNCHANGED <<env, storeVars, now, pipelineVars, log, csrfVars, callArgs>>

NextLogger == writeLog

SpecLogger == InitLogger /\ [][NextLogger]_vars

\* Two values are the same up to the values of the secret fields, at every
\* depth.
RECURSIVE SameExceptSecrets(_, _)
SameExceptSecrets(a, b) ==
  IF a.kind = "object" /\ b.kind = "object" /\ Len(a.fields) = Len(b.fields)
  THEN \A i \in 1..Len(a.fields) :
         /\ a.fields[i][1] = b.fields[i][1]
         /\ \/ a.fields[i][1] \in SecretFieldNames
            \/ SameExceptSecrets(a.fields[i][2], b.fields[i][2])
  ELSE a = b

\* C27: two log calls whose data differ only in the values of fields named
\* password, token, key, secret, authorization, cookie or session, at any
\* depth, emit entries with identical data.
C27_SecretValuesNeverLogged ==
  (Len(callResult) = 2 /\ SameExceptSecrets(callArgs[1], callArgs[2])) =>
    callResult[1].data = callResult[2].data

-----------------------------------------------------------------------------
(* Issue of an anti-forgery token by GET /csrf-token and its validation on *)
(* a later POST (SpecToken).                                               *)

\* Handler instances; none of them keeps anything between requests.
TokenHandlers == {1, 2}

\* generateSecureToken(length): length characters of the token alphabet,
\* of which the model has an upper-case letter and a digit.
TokenAlphabet == {"A", "0"}
TokenLength == 2
generateSecureToken == [1..TokenLength -> TokenAlphabet]

\* Number of GET /csrf-token requests.
MaxIssued == 2

\* The cookie is set under another name than the one validation looks for.
createCsrfCookieOtherNameMutant(token) ==
  <<"c","s","r","f","-","t","o","k","e","n","=">> \o token
    \o <<";"," ","P","a","t","h","=","/",";"," ","S","e","c","u","r","e",
         ";"," ","H","t","t","p","O","n","l","y",
         ";"," ","S","a","m","e","S","i","t","e","=","S","t","r","i","c","t">>

\* `__Host-csrf-token=${token}; Path=/; Secure; HttpOnly; SameSite=Strict`
createCsrfCookie(token) ==
  CsrfCookiePrefix \o token
    \o <<";"," ","P","a","t","h","=","/",";"," ","S","e","c","u","r","e",
         ";"," ","H","t","t","p","O","n","l","y",
         ";"," ","S","a","m","e","S","i","t","e","=","S","t","r","i","c","t">>

\* The name=value pair a client keeps from a Set-Cookie header and sends
\* back in its Cookie header.
StoredCookie(setCookie) == Split(setCookie, ";")[1]

\* The attributes of a Set-Cookie header.
CookieAttributes(setCookie) ==
  [i \in 1..Len(Split(setCookie, ";")) |-> Trim(Split(setCookie, ";")[i])]

InitToken ==
  /\ callResult = <<>>
  /\ callArgs = <<>>
  /\ log = <<>>
  /\ env = <<>> /\ kv = <<>> /\ kvExpiry = <<>> /\ now = 0
  /\ pc = <<>> /\ req = <<>> /\ loc = <<>> /\ resp = <<>> /\ hist = <<>>
  /\ csrfReq = <<>> /\ csrfResult = Null

\* GET /csrf-token on handler h: callResult collects the responses.
IssueCsrfToken(h) ==
  /\ Len(callResult) < MaxIssued
  /\ \E csrfToken \in generateSecureToken :
       callResult' = Append(callResult,
                            [handler |-> h, csrfToken |-> csrfToken,
                             setCookie |-> createCsrfCookie(csrfToken)])
  /\ UNCHANGED <<env, storeVars, now, pipelineVars, log, csrfVars, callArgs>>

\* A POST on handler h whose X-CSRF-Token is the body token of response i
\* and whose Cookie header has the cookie of response j, alone or after
\* another cookie. callArgs is the request, log the result of
\* validateCsrfToken.
SubmitWithToken(h) ==
  /\ \E i, j \in 1..Len(callResult), others \in {<<>>, <<"s","i","d","=","a","b",";"," ">>} :
       LET headers == ("X-CSRF-Token" :> callResult[i].csrfToken)
                        @@ ("Cookie" :> others \o StoredCookie(callResult[j].setCookie))
       IN  /\ callArgs' = <<[handler |-> h, header |-> i, cookie |-> j,
                            headers |-> headers]>>
           /\ log' = <<validateCsrfToken(headers)>>
  /\ UNCHANGED <<env, storeVars, now, pipelineVars, csrfVars, callResult>>

NextToken ==
  \E h \in TokenHandlers : IssueCsrfToken(h) \/ SubmitWithToken(h)

SpecToken == InitToken /\ [][NextToken]_vars

\* C28: the response to GET /csrf-token has the same token in its body and
\* in its __Host-csrf-token cookie, which is Secure, HttpOnly and
\* SameSite=Strict; a later POST that sends the body token as X-CSRF-Token
\* with that cookie passes validateCsrfToken, on any handler and whatever
\* was issued or validated before.
C28_TokenRoundTrip ==
  /\ \A i \in 1..Len(callResult) :
       LET attributes == CookieAttributes(callResult[i].setCookie)
       IN  /\ attributes[1] = CsrfCookiePrefix \o callResult[i].csrfToken
           /\ Includes(attributes, <<"S","e","c","u","r","e">>)
           /\ Includes(attributes, <<"H","t","t","p","O","n","l","y">>)
           /\ Includes(attributes,
                       <<"S","a","m","e","S","i","t","e","=","S","t","r","i","c","t">>)
  /\ (Len(callArgs) = 1 /\ callArgs[1].header = callArgs[1].cookie) =>
       log = <<TRUE>>

\* Two different tokens have been issued, and the second one has come back
\* in header and cookie and been validated by a handler other than its issuer.
C28_Witness ==
  /\ Len(callArgs) = 1 /\ callArgs[1].header = 2 /\ callArgs[1].cookie = 2
  /\ callArgs[1].handler # callResult[2].handler
  /\ callResult[1].csrfToken # callResult[2].csrfToken
  /\ log = <<TRUE>>

-----------------------------------------------------------------------------
(* processFormSubmission and the response of fetch, one step per fetch     *)
(* attempt and per backoff delay of the adapters (SpecDispatch).           *)

DispatchEnvs == [AIRTABLE : BOOLEAN, RESEND : {"none", "key", "full"}]

DispatchEvent(service, kind, attempt, outcome, ms) ==
  [service |-> service, kind |-> kind, attempt |-> attempt,
   outcome |-> outcome, ms |-> ms]

\* The outcomes of the fetch attempts a service has made so far.
OutcomesOf(events, service) ==
  LET attempts == SelectSeq(events, LAMBDA e : e.service = service /\ e.kind = "attempt")
  IN  [i \in 1..Len(attempts) |-> attempts[i].outcome]

DelaysOf(events, service) ==
  SelectSeq(events, LAMBDA e : e.service = service /\ e.kind = "delay")

\* What the adapter of a service returns for the outcomes of its attempts.
AdapterResult(service, outcomes) ==
  IF service = "airtable" THEN saveSubmission(callArgs, outcomes)
  ELSE sendNotification(callArgs, outcomes)

\* The response is built without waiting for the adapters.
ResponseNotAwaitedMutant(st) == st.stage # "done"

\* The awaits of processFormSubmission and of fetch: the response is built
\* when both adapter blocks are behind.
ResponseReady(st) == st.stage = "respond"

InitDispatch ==
  /\ callArgs \in DispatchEnvs
  /\ callResult = <<[stage |-> "airtable", step |-> "start", attempt |-> 0,
                     airtable |-> NotAttempted, email |-> NotAttempted,
                     response |-> <<>>]>>
  /\ log = <<>>
  /\ env = <<>> /\ kv = <<>> /\ kvExpiry = <<>> /\ now = 0
  /\ pc = <<>> /\ req = <<>> /\ loc = <<>> /\ resp = <<>> /\ hist = <<>>
  /\ csrfReq = <<>> /\ csrfResult = Null

\* if (env.AIRTABLE_API_KEY && env.AIRTABLE_BASE_ID) await saveSubmission(...)
StartAirtable ==
  /\ callResult[1].stage = "airtable" /\ callResult[1].step = "start"
  /\ callResult' =
       IF AirtableConfigured(callArgs)
       THEN <<[callResult[1] EXCEPT !.step = "fetch", !.attempt = 1]>>
       ELSE <<[callResult[1] EXCEPT !.stage = "email"]>>
  /\ UNCHANGED <<env, storeVars, now, pipelineVars, log, csrfVars, callArgs>>

\* if (env.RESEND_API_KEY) await sendNotification(...), which gives up
\* before any fetch when the addresses are not configured.
StartEmail ==
  /\ callResult[1].stage = "email" /\ callResult[1].step = "start"
  /\ callResult' =
       IF ~ResendConfigured(callArgs)
       THEN <<[callResult[1] EXCEPT !.stage = "respond"]>>
       ELSE IF callArgs.RESEND = "key"
       THEN <<[callResult[1] EXCEPT !.stage = "respond",
                                    !.email = sendNotification(callArgs, <<"ok">>)]>>
       ELSE <<[callResult[1] EXCEPT !.step = "fetch", !.attempt = 1]>>
  /\ UNCHANGED <<env, storeVars, now, pipelineVars, log, csrfVars, callArgs>>

\* One pass of the loop of retryRequest: await fetch(url, options), then
\* return, throw or go on to the delay.
FetchAttempt ==
  /\ callResult[1].stage \in {"airtable", "email"} /\ callResult[1].step = "fetch"
  /\ \E outcome \in FetchOutcomes :
       LET st == callResult[1]
           events == Append(log, DispatchEvent(st.stage, "attempt", st.attempt, outcome, 0))
           result == AdapterResult(st.stage, OutcomesOf(events, st.stage))
       IN  /\ log' = events
           /\ callResult' =
                IF outcome \in {"ok", "4xx"} \/ st.attempt = MaxRetries
                THEN IF st.stage = "airtable"
                     THEN <<[st EXCEPT !.stage = "email", !.step = "start",
                                       !.airtable = result]>>
                     ELSE <<[st EXCEPT !.stage = "respond", !.step = "start",
                                       !.email = result]>>
                ELSE <<[st EXCEPT !.step = "delay"]>>
  /\ UNCHANGED <<env, storeVars, now, pipelineVars, csrfVars, callArgs>>

\* await this.delay(Math.pow(2, attempt) * 1000)
BackoffDelay ==
  /\ callResult[1].stage \in {"airtable", "email"} /\ callResult[1].step = "delay"
  /\ log' = Append(log, DispatchEvent(callResult[1].stage, "delay", callResult[1].attempt,
                                      "", (2 ^ callResult[1].attempt) * 1000))
  /\ callResult' = <<[callResult[1] EXCEPT !.step = "fetch", !.attempt = @ + 1]>>
  /\ UNCHANGED <<env, storeVars, now, pipelineVars, csrfVars, callArgs>>

\* return new Response(JSON.stringify(result), {status: result.success ? 200 : 500})
Respond ==
  /\ ResponseReady(callResult[1])
  /\ callResult[1].response = <<>>
  /\ LET st == callResult[1]
         success == OverallSuccess(st.airtable, st.email)
     IN  callResult' =
           <<[st EXCEPT !.stage = "done",
                        !.response = <<[status |-> IF success THEN 200 ELSE 500,
                                        success |-> success,
                                        airtable |-> st.airtable,
                                        email |-> st.email]>>]>>
  /\ log' = Append(log, DispatchEvent("fetch", "response", 0, "", 0))
  /\ UNCHANGED <<env, storeVars, now, pipelineVars, csrfVars, callArgs>>

NextDispatch ==
  \/ StartAirtable
  \/ StartEmail
  \/ FetchAttempt
  \/ BackoffDelay
  \/ Respond

SpecDispatch == InitDispatch /\ [][NextDispatch]_vars

\* The attempts of a service are over: the last one got a 2xx or a 4xx, or
\* was the MaxRetries-th; and a delay was taken between any two of them.
AttemptsFinished(service) ==
  LET outcomes == OutcomesOf(log, service)
      delays == DelaysOf(log, service)
  IN  /\ Len(outcomes) >= 1
      /\ outcomes[Len(outcomes)] \in {"ok", "4xx"} \/ Len(outcomes) = MaxRetries
      /\ Len(delays) = Len(outcomes) - 1
      /\ \A i \in 1..Len(delays) : delays[i].ms = (2 ^ i) * 1000

LastOutcome(service) ==
  OutcomesOf(log, service)[Len(OutcomesOf(log, service))]

\* C29: the response to an accepted submission is produced only after every
\* configured adapter's attempts, with all retries and backoff delays, are
\* over, and its body has the final result of each configured service.
C29_ResponseAfterAdapters ==
  Len(callResult[1].response) = 1 =>
    LET body == callResult[1].response[1]
    IN  /\ log[Len(log)].kind = "response"
        /\ \A i \in 1..(Len(log) - 1) : log[i].kind # "response"
        /\ callArgs.AIRTABLE =>
             /\ AttemptsFinished("airtable")
             /\ body.airtable.success = (LastOutcome("airtable") = "ok")
             /\ ~body.airtable.success => body.airtable.error # ""
        /\ callArgs.RESEND = "full" =>
             /\ AttemptsFinished("email")
             /\ body.email.success = (LastOutcome("email") = "ok")
             /\ ~body.email.success => body.email.error # ""
        /\ callArgs.RESEND = "key" =>
             body.email = [success |-> FALSE, error |-> "Email addresses not configured"]

\* A response has been produced after the record store succeeded at its
\* third attempt, two delays behind it, and the notifier got a 4xx.
C29_Witness ==
  /\ Len(callResult[1].response) = 1
  /\ callArgs.AIRTABLE /\ callArgs.RESEND = "full"
  /\ OutcomesOf(log, "airtable") = <<"5xx", "throw", "ok">>
  /\ Len(DelaysOf(log, "airtable")) = 2
  /\ OutcomesOf(log, "email") = <<"4xx">>
  /\ callResult[1].response[1].status = 200

-----------------------------------------------------------------------------
(* The accounting of checkRateLimit (SpecRateLimit).                       *)

\* How many of the timestamps a check read lie within the window at its time.
InWindowCount(entry) ==
  Cardinality({k \in 1..Len(entry.stored) : entry.t - entry.stored[k] < WindowMs})

\* C30: an allowed check returns remaining = limit - (number of in-window
\* timestamps including the current request's), which is never negative; a
\* rejected check returns remaining = 0; timestamps older than the window
\* are left out before the count is compared with the limit.
C30_RemainingAccounting ==
  env.RATE_LIMITER =>
    \A i \in 1..Len(log) :
      LET e == log[i]
          limit == rateLimitPerMinute(env)
      IN  /\ e.result.allowed <=> InWindowCount(e) < limit
          /\ e.result.allowed =>
               /\ e.result.remaining = limit - (InWindowCount(e) + 1)
               /\ e.result.remaining >= 0
          /\ ~e.result.allowed => e.result.remaining = 0

\* A check that read one timestamp older than the window and one within it
\* was allowed under a limit of 2 with nothing remaining, after a check of
\* the same client had been rejected.
C30_Witness ==
  /\ env.RATE_LIMITER /\ rateLimitPerMinute(env) = 2
  /\ \E i, j \in 1..Len(log) :
       /\ j < i /\ log[j].ip = log[i].ip
       /\ ~log[j].result.allowed /\ log[j].result.remaining = 0
       /\ log[i].result.allowed /\ log[i].result.remaining = 0
       /\ Len(log[i].stored) = 2
       /\ log[i].t - log[i].stored[1] >= WindowMs
       /\ log[i].t - log[i].stored[2] < WindowMs

-----------------------------------------------------------------------------
(* What a check writes to the shared store (SpecRateLimit).                *)

\* C31: a rejected check leaves the store as it is: no timestamp appended,
\* no put, the key's expiry not renewed; only allowed checks write.
C31_RejectedCheckWritesNothing ==
  [][Len(log') = Len(log) + 1 =>
       LET e == log'[Len(log')]
       IN  /\ ~e.result.allowed =>
                /\ kv' = kv /\ kvExpiry' = kvExpiry
                /\ e.kvPuts = 0
           /\ (kv' # kv \/ kvExpiry' # kvExpiry) =>
                /\ e.result.allowed /\ e.kvPuts = 1
                /\ kv'[ClientKey(e.ip)] = Append(RecentTimestamps(e.stored, e.t), e.t)
                /\ kvExpiry'[ClientKey(e.ip)] = e.t + WindowMs]_vars

\* The last check of a client was rejected later than the check that wrote
\* last, and the key still expires one window after that write.
C31_Witness ==
  /\ env.RATE_LIMITER
  /\ Len(log) >= 2
  /\ LET e == log[Len(log)]
         key == ClientKey(e.ip)
     IN  /\ ~e.result.allowed
         /\ key \in DOMAIN kv /\ kv[key] # <<>>
         /\ e.t > kv[key][Len(kv[key])]
         /\ kvExpiry[key] = kv[key][Len(kv[key])] + WindowMs

-----------------------------------------------------------------------------
(* The attempts and delays of retryRequest (SpecRetry).                    *)

\* C32: retryRequest makes at most maxRetries attempts and ends by returning
\* a response or throwing; before the retry that follows the k-th failed
\* attempt it waits 2^k seconds, and it waits neither after the last attempt
\* nor after a 2xx or 4xx.
C32_BoundedAttemptsAndBackoff ==
  callResult # <<>> =>
    LET r == callResult[1]
    IN  /\ r.attempts \in 1..MaxRetries
        /\ r.final = callArgs[r.attempts]
        /\ r.thrown <=> r.final = "throw"
        /\ \A k \in 1..(r.attempts - 1) : callArgs[k] \in {"5xx", "throw"}
        /\ r.final \in {"5xx", "throw"} => r.attempts = MaxRetries
        /\ r.delays = [k \in 1..(r.attempts - 1) |-> (2 ^ k) * 1000]

\* Three failed attempts, the last one thrown, with delays of 2 s and 4 s
\* between them and none after the third.
C32_Witness ==
  /\ callArgs = <<"throw", "5xx", "throw">>
  /\ callResult # <<>>
  /\ callResult[1].thrown /\ callResult[1].attempts = MaxRetries
  /\ callResult[1].delays = <<2000, 4000>>

-----------------------------------------------------------------------------
(* What the output of sanitizeString is made of (SpecSanitize).            *)

\* The five entities the encoder produces.
HtmlEntities == {HtmlEntity(c) : c \in {"&", "<", ">", "\"", "'"}}

\* An entity stands in s from place i on.
EntityAt(s, i) ==
  \E entity \in HtmlEntities :
    /\ i + Len(entity) - 1 <= Len(s)
    /\ SubSeq(s, i, i + Len(entity) - 1) = entity

\* No raw '<', '>', '"' or "'", no control character, no two whitespace
\* characters in a row, and no more than MaxSanitizedLength characters.
SanitizedShape(s) ==
  /\ \A i \in 1..Len(s) : s[i] \notin {"<", ">", "\"", "'"} /\ ~IsControl(s[i])
  /\ \A i \in 1..(Len(s) - 1) : ~(IsSpace(s[i]) /\ IsSpace(s[i + 1]))
  /\ Len(s) <= MaxSanitizedLength

\* C33: the output of sanitizeString has none of the raw characters '<',
\* '>', '"', "'", no null or control character, no run of two or more
\* whitespace characters and at most 10,000 characters; and every '&' in it
\* is the first character of one of the five entities, also when the output
\* was truncated.
C33_SanitizedOutput ==
  Len(callResult) >= 1 =>
    /\ SanitizedShape(callResult[1])
    /\ \A i \in 1..Len(callResult[1]) :
         callResult[1][i] = "&" => EntityAt(callResult[1], i)

-----------------------------------------------------------------------------
(* The lists in the shared store under interleaved checks (SpecRace).      *)

\* C34: in every reachable state of the store, whatever the interleaving of
\* the checks of one client, the list stored for a client has at most
\* `limit` entries, and every entry is the request time of a check that was
\* allowed.
C34_StoredListBounded ==
  \A key \in DOMAIN kv :
    /\ Len(kv[key]) <= rateLimitPerMinute(env)
    /\ \A i \in 1..Len(kv[key]) :
         \E p \in DOMAIN pc :
           /\ ClientKey(req[p].ip) = key
           /\ loc[p].now = kv[key][i]
           /\ loc[p].rl.allowed
           /\ hist[p].kvPuts = 1 /\ ~hist[p].kvError

\* Under a limit of 1 two checks of one client were both allowed from the
\* same read, and the list stored holds one entry.
C34_Witness ==
  /\ rateLimitPerMinute(env) = 1
  /\ \E key \in DOMAIN kv :
       /\ Len(kv[key]) = 1
       /\ Cardinality(Admitted(key)) = 2

-----------------------------------------------------------------------------
(* The reset time of a rejection (SpecRateLimit).                          *)

\* C35: in a sequential execution with a clock that never goes back, a
\* rejection's resetTime R lies strictly in the future; every later check of
\* that client at a time t < R is rejected with the same R, and the first
\* check at a time t >= R is allowed.
C35_ResetTimeExact ==
  env.RATE_LIMITER =>
    \A c \in IpHeaders :
      LET cl == ClientLog(c)
      IN  \A j \in 1..Len(cl) :
            ~cl[j].result.allowed =>
              LET R == cl[j].result.resetTime
              IN  /\ R > cl[j].t
                  /\ \A k \in (j + 1)..Len(cl) :
                       /\ cl[k].t < R =>
                            /\ ~cl[k].result.allowed
                            /\ cl[k].result.resetTime = R
                       /\ (/\ cl[k].t >= R
                           /\ \A m \in (j + 1)..(k - 1) : cl[m].t < R) =>
                            cl[k].result.allowed

\* A client was rejected, rejected again later with the same reset time, and
\* allowed by its first check at that reset time.
C35_Witness ==
  /\ env.RATE_LIMITER
  /\ \E c \in IpHeaders :
       LET cl == ClientLog(c)
       IN  \E j, k, n \in 1..Len(cl) :
             /\ j < k /\ k < n
             /\ ~cl[j].result.allowed /\ ~cl[k].result.allowed
             /\ cl[k].t > cl[j].t
             /\ cl[k].result.resetTime = cl[j].result.resetTime
             /\ cl[n].t = cl[j].result.resetTime
             /\ cl[n].result.allowed

-----------------------------------------------------------------------------
(* checkRateLimit against a store that expires keys and, side by side,     *)
(* against one that never does (SpecExpiry). kv and kvExpiry are the       *)
(* expiring store; callResult holds the lists of the other one.            *)

InitExpiry ==
  /\ env \in RaceEnvs
  /\ kv = <<>>
  /\ kvExpiry = [k \in Keys |-> 0]
  /\ now = TickMs
  /\ log = <<>>
  /\ callArgs = <<>>
  /\ callResult = <<[k \in Keys |-> <<>>]>>
  /\ pc = <<>> /\ req = <<>> /\ loc = <<>> /\ resp = <<>> /\ hist = <<>>
  /\ csrfReq = <<>> /\ csrfResult = Null

\* One call of checkRateLimit on each store, at the same time and for the
\* same client.
CheckBothStores(ipHeader) ==
  /\ Len(log) < MaxCalls
  /\ LET key == ClientKey(ipHeader)
         limit == rateLimitPerMinute(env)
         d == RateLimitDecision(StoredTimestamps(key), limit, now)
         kept == RateLimitDecision(callResult[1][key], limit, now)
     IN  /\ IF ReturnsBeforePut(d.result) THEN UNCHANGED storeVars
            ELSE KvPutValue(key, d.write)
         /\ callResult' =
              IF ReturnsBeforePut(kept.result) THEN callResult
              ELSE <<[callResult[1] EXCEPT ![key] = kept.write]>>
         /\ log' = Append(log, [ip |-> ipHeader, t |-> now,
                                stored |-> StoredTimestamps(key),
                                kept |-> callResult[1][key],
                                result |-> d.result,
                                keptResult |-> kept.result])
  /\ UNCHANGED <<env, now, pipelineVars, csrfVars, callArgs>>

TickExpiry ==
  /\ Tick
  /\ UNCHANGED <<env, storeVars, log, pipelineVars, csrfVars, callVars>>

NextExpiry ==
  \/ \E ipHeader \in IpHeaders : CheckBothStores(ipHeader)
  \/ TickExpiry

SpecExpiry == InitExpiry /\ [][NextExpiry]_vars

\* C36: key expiry never changes a decision: the store that expires a key
\* one window after its last write and the store that keeps every key give
\* the same allowed, remaining and resetTime for every sequence of checks.
C36_ExpiryChangesNoDecision ==
  /\ \A i \in 1..Len(log) : log[i].result = log[i].keptResult
  /\ \A key \in DOMAIN kv :
       now >= kvExpiry[key] =>
         \A i \in 1..Len(kv[key]) : now - kv[key][i] >= WindowMs

\* A check found its key expired where the other store still had the list,
\* and both gave the same result.
C36_Witness ==
  \E i \in 1..Len(log) :
    /\ log[i].stored = <<>> /\ log[i].kept # <<>>
    /\ log[i].result = log[i].keptResult

-----------------------------------------------------------------------------
(* Requests answered before the rate-limit step (Spec).                    *)

\* The request is a preflight, the token request, one of another method
\* than POST, or a POST that failed the anti-forgery check.
StopsBeforeRateLimit(r, h) ==
  /\ r # NoRequest
  /\ \/ r.method # "POST"
     \/ \E i \in 1..Len(h.trace) : h.trace[i] = Guard("csrf", FALSE)

\* C37: a request that does not reach the rate-limit step (OPTIONS, GET
\* /csrf-token, a method other than POST, a POST that fails the anti-forgery
\* check) is answered at once; it neither reads nor writes the rate-limit
\* store, which stays as it was, and makes no outbound call.
C37_EarlyAnswersTouchNothing ==
  [][\A p \in DOMAIN pc :
       (/\ <<pc[p], req[p], hist[p]>> # <<pc'[p], req'[p], hist'[p]>>
        /\ StopsBeforeRateLimit(req'[p], hist'[p])) =>
         /\ pc'[p] = "done"
         /\ kv' = kv /\ kvExpiry' = kvExpiry
         /\ hist'[p].kvGets = 0 /\ hist'[p].kvPuts = 0
         /\ hist'[p].verifyCalls = 0
         /\ hist'[p].airtableCalls = 0 /\ hist'[p].emailCalls = 0]_vars

\* With a timestamp of the client in the store, a POST was refused by the
\* anti-forgery check without a read or a write of the store.
C37_Witness ==
  \E p \in DOMAIN pc :
    /\ req[p].method = "POST"
    /\ resp[p].kind = "csrfInvalid"
    /\ hist[p].kvGets = 0 /\ hist[p].kvPuts = 0
    /\ ClientKey(req[p].ip) \in DOMAIN kv
    /\ kv[ClientKey(req[p].ip)] # <<>>

-----------------------------------------------------------------------------
(* What the limiter counts (Spec).                                         *)

\* The handler is at or past request.json(): the body is being parsed, the
\* spam verifier or an adapter is running, or the request was answered after
\* the rate-limit step by something other than the limiter or the store.
PastRateLimit(p) ==
  \/ pc[p] \in {"parse", "verify", "airtable", "email"}
  \/ /\ pc[p] = "done"
     /\ \/ resp[p].kind \in {"spamFailed", "validationFailed", "result"}
        \/ hist[p].thrown \in {JsonSyntaxError, NullBodyError}

\* C38: the limiter counts attempts: a POST that passed the anti-forgery
\* check and was under budget has its timestamp in the store before its body
\* is parsed, and keeps it there when the body does not parse, when spam
\* verification or validation rejects it, or when every adapter fails.
C38_AttemptsAreCounted ==
  \A p \in DOMAIN pc :
    (env.RATE_LIMITER /\ PastRateLimit(p)) =>
      LET key == ClientKey(req[p].ip)
      IN  /\ hist[p].kvGets = 1 /\ hist[p].kvPuts = 1
          /\ key \in DOMAIN kv
          /\ kv[key] # <<>>
          /\ kv[key][Len(kv[key])] = loc[p].now
          /\ kvExpiry[key] >= loc[p].now + WindowMs

\* Under a limit of 1 a request was refused by validation, and its timestamp
\* is the client's list in the store.
C38_Witness ==
  \E p \in DOMAIN pc :
    /\ env.RATE_LIMITER /\ rateLimitPerMinute(env) = 1
    /\ resp[p].kind = "validationFailed"
    /\ kv[ClientKey(req[p].ip)] = <<loc[p].now>>

-----------------------------------------------------------------------------
(* One budget per client identity (SpecRateLimit).                         *)

\* The list a store of its own would hold after the first n checks of one
\* client, had no other client made a request.
RECURSIVE OwnStore(_, _)
OwnStore(cl, n) ==
  IF n = 0 THEN <<>>
  ELSE LET d == RateLimitDecision(OwnStore(cl, n - 1), rateLimitPerMinute(env), cl[n].t)
       IN  IF d.result.allowed THEN d.write ELSE OwnStore(cl, n - 1)

OwnResult(cl, n) ==
  RateLimitDecision(OwnStore(cl, n - 1), rateLimitPerMinute(env), cl[n].t).result

\* The key of the store a header value is counted under.
BudgetKey(ipHeader) ==
  IF ipHeader = Null THEN <<"u","n","k","n","o","w","n">> ELSE ipHeader

\* C39: rate-limit state is kept per client identity: a check for the
\* CF-Connecting-IP value A reads and writes only the key A, so every result
\* of a client is what its own checks alone give, whatever other clients
\* request; the requests without the header share the key 'unknown' and
\* with it one budget.
C39_PerClientBudget ==
  env.RATE_LIMITER =>
    /\ DOMAIN kv \subseteq {BudgetKey(c) : c \in IpHeaders}
    /\ \A c \in IpHeaders :
         LET cl == ClientLog(c)
         IN  /\ \A n \in 1..Len(cl) : cl[n].result = OwnResult(cl, n)
             /\ BudgetKey(c) \in DOMAIN kv =>
                  kv[BudgetKey(c)] = OwnStore(cl, Len(cl))
             /\ BudgetKey(c) \notin DOMAIN kv => OwnStore(cl, Len(cl)) = <<>>

\* Under a limit of 1 one address was allowed and then rejected, after which
\* the other address and a request without the header were both allowed.
C39_Witness ==
  /\ env.RATE_LIMITER /\ rateLimitPerMinute(env) = 1
  /\ Len(log) = 4
  /\ log[1].ip # Null /\ log[2].ip = log[1].ip
  /\ log[3].ip \notin {Null, log[1].ip} /\ log[4].ip = Null
  /\ log[1].result.allowed /\ ~log[2].result.allowed
  /\ log[3].result.allowed /\ log[4].result.allowed
  /\ DOMAIN kv = {log[1].ip, log[3].ip, <<"u","n","k","n","o","w","n">>}

-----------------------------------------------------------------------------
(* The adapters and processFormSubmission called on their own, for every   *)
(* configuration and every outcome of the attempts (SpecAdapters).         *)

AdapterInputs == [env : DispatchEnvs, airtable : RetryInputs, email : RetryInputs]

InitAdapters ==
  /\ callArgs \in AdapterInputs
  /\ callResult = [airtable |-> <<>>, email |-> <<>>, results |-> <<>>]
  /\ env = <<>> /\ kv = <<>> /\ kvExpiry = <<>> /\ now = 0
  /\ pc = <<>> /\ req = <<>> /\ loc = <<>> /\ resp = <<>> /\ hist = <<>>
  /\ log = <<>>
  /\ csrfReq = <<>> /\ csrfResult = Null

\* airtableService.saveSubmission(formData, env)
CallSaveSubmission ==
  /\ callResult.airtable = <<>>
  /\ callResult' = [callResult EXCEPT
                      !.airtable = <<saveSubmission(callArgs.env, callArgs.airtable)>>]
  /\ UNCHANGED <<env, storeVars, now, pipelineVars, log, csrfVars, callArgs>>

\* emailService.sendNotification(formData, env)
CallSendNotification ==
  /\ callResult.email = <<>>
  /\ callResult' = [callResult EXCEPT
                      !.email = <<sendNotification(callArgs.env, callArgs.email)>>]
  /\ UNCHANGED <<env, storeVars, now, pipelineVars, log, csrfVars, callArgs>>

\* processFormSubmission(formData, env): each configured service in turn,
\* then results.success = results.airtable.success || results.email.success.
CallProcessFormSubmission ==
  /\ callResult.results = <<>>
  /\ LET airtable == IF AirtableConfigured(callArgs.env)
                     THEN saveSubmission(callArgs.env, callArgs.airtable)
                     ELSE NotAttempted
         email == IF ResendConfigured(callArgs.env)
                  THEN sendNotification(callArgs.env, callArgs.email)
                  ELSE NotAttempted
     IN  callResult' = [callResult EXCEPT
                          !.results = <<[success |-> OverallSuccess(airtable, email),
                                         airtable |-> airtable,
                                         email |-> email]>>]
  /\ UNCHANGED <<env, storeVars, now, pipelineVars, log, csrfVars, callArgs>>

NextAdapters ==
  \/ CallSaveSubmission
  \/ CallSendNotification
  \/ CallProcessFormSubmission

SpecAdapters == InitAdapters /\ [][NextAdapters]_vars

\* The response or error the attempts of a service end with: the first 2xx
\* or 4xx outcome, or the outcome of the last attempt.
FinalOutcome(outcomes) ==
  IF StoppingAttempts(outcomes) = {} THEN outcomes[MaxRetries]
  ELSE outcomes[CHOOSE i \in StoppingAttempts(outcomes) :
                   \A j \in StoppingAttempts(outcomes) : i <= j]

\* {success: false, error: <message>}
FailureValue(r) == ~r.success /\ r.error # ""

\* What an adapter returns is a value of the result shape, a failure for a
\* missing configuration and for every final outcome but a 2xx.
AdapterReportsAsValue(r, configured, outcomes) ==
  /\ r \in [success : BOOLEAN, error : STRING]
  /\ r.success => configured /\ FinalOutcome(outcomes) = "ok"
  /\ ~configured => FailureValue(r)
  /\ FinalOutcome(outcomes) # "ok" => FailureValue(r)

\* C40: the adapters report every failure as a value and never throw:
\* saveSubmission and sendNotification return {success: false, error} for a
\* missing configuration, for a network error thrown after the last retry
\* and for every final response that is not 2xx, and success: true only for
\* a final 2xx; so a service whose retries are exhausted is recorded as
\* failed while the other service still decides the result of the request.
C40_FailuresAreValues ==
  /\ callResult.airtable # <<>> =>
       AdapterReportsAsValue(callResult.airtable[1], callArgs.env.AIRTABLE,
                             callArgs.airtable)
  /\ callResult.email # <<>> =>
       AdapterReportsAsValue(callResult.email[1], callArgs.env.RESEND = "full",
                             callArgs.email)
  /\ callResult.results # <<>> =>
       LET results == callResult.results[1]
           airtableDown == /\ callArgs.env.AIRTABLE
                           /\ FinalOutcome(callArgs.airtable) \in {"5xx", "throw"}
           emailDown == /\ callArgs.env.RESEND = "full"
                        /\ FinalOutcome(callArgs.email) \in {"5xx", "throw"}
       IN  /\ airtableDown =>
                /\ FailureValue(results.airtable)
                /\ results.success = results.email.success
                /\ callArgs.env.RESEND = "full" /\ FinalOutcome(callArgs.email) = "ok"
                     => results.success
           /\ emailDown =>
                /\ FailureValue(results.email)
                /\ results.success = results.airtable.success
                /\ callArgs.env.AIRTABLE /\ FinalOutcome(callArgs.airtable) = "ok"
                     => results.success

\* Airtable met a server error and then network errors up to its third
\* attempt and returned a failure, Resend succeeded at its third attempt;
\* processFormSubmission recorded the one as failed and succeeded by the other.
C40_Witness ==
  /\ callArgs.env.AIRTABLE /\ callArgs.env.RESEND = "full"
  /\ callArgs.airtable = <<"5xx", "throw", "throw">>
  /\ callArgs.email = <<"throw", "5xx", "ok">>
  /\ callResult.airtable = <<[success |-> FALSE, error |-> "fetch failed"]>>
  /\ callResult.email # <<>> /\ callResult.email[1].success
  /\ callResult.results # <<>>
  /\ callResult.results[1].airtable = [success |-> FALSE, error |-> "fetch failed"]
  /\ callResult.results[1].email.success
  /\ callResult.results[1].success
====
